---- MODULE Spec2Model ----
(***************************************************************************)
(* Model of the CTRK telemetry decoder (src/src/ctrk_parser.py).           *)
(*                                                                         *)
(* The decoder walks the typed records of the data section, reconstructs   *)
(* an epoch for each record, updates the CAN channel state and the GPS     *)
(* state, and emits one sample per 100 ms once the GPS gate is open.       *)
(* Two drivers exist: the continuous one (_parse_data_section) and the     *)
(* per-lap one (_parse_perlap / _parse_lap_range).                         *)
(*                                                                         *)
(* Conventions of the model                                                *)
(*   - a Python None of an integer variable is None (-1); a None of a      *)
(*     bytes / object variable is the empty tuple <<>>;                    *)
(*   - coordinates are integers in units of 1/CoordScale degree (a quarter *)
(*     of a degree): the positions of the model are multiples of 15 arc    *)
(*     minutes, which the doubles of the code hold exactly, so that the    *)
(*     float arithmetic of the code on them is exact arithmetic;           *)
(*   - the data section is the sequence `data` of records; it is revealed  *)
(*     record by record while the first pass reads it and is replayed by   *)
(*     a later pass over the same bytes;                                   *)
(*   - an uncaught Python exception ends the run in pc = "raised".         *)
(***************************************************************************)
EXTENDS Integers, Sequences, FiniteSets, TLC

\* ------------------------------------------------------------------------
\* Bounds of the model
\* ------------------------------------------------------------------------

\* Largest number of well-formed records in the data section.
MaxRecords == 3

\* Largest data section (in records) that is parsed a second time.
MaxReparseRecords == 2

\* ------------------------------------------------------------------------
\* Program constants
\* ------------------------------------------------------------------------

None == -1

HeaderSize == 14
MaxRecordSize == 500
EmitIntervalMs == 100
LeanCenter == 9000
LeanDeadband == 499
LeanStep == 100
NoFixDegrees == 9999
CoordScale == 4
NoFix == NoFixDegrees * CoordScale

CAN_0x0209 == 521
CAN_0x0215 == 533
CAN_0x023E == 574
CAN_0x0250 == 592
CAN_0x0258 == 600
CAN_0x0260 == 608
CAN_0x0264 == 612
CAN_0x0268 == 616

\* CAN_HANDLERS: the identifiers of the dispatch table (0x023E is handled
\* separately, it is not a key of the table).
CAN_HANDLERS ==
    {CAN_0x0209, CAN_0x0215, CAN_0x0250, CAN_0x0258, CAN_0x0260, CAN_0x0264,
     CAN_0x0268}

\* ------------------------------------------------------------------------
\* Byte helpers
\* ------------------------------------------------------------------------

\* data[i] of a Python bytes object (0-based).
Byte(d, i) == d[i + 1]

\* (d[i] << 8) | d[i+1]
U16BE(d, i) == Byte(d, i) * 256 + Byte(d, i + 1)

\* (b >> n) & 1
Bit(b, n) == (b \div (2 ^ n)) % 2

\* x & 0xFFFF
Mask16(x) == x % 65536

\* ------------------------------------------------------------------------
\* Channel state
\* ------------------------------------------------------------------------

\* The channel dictionary built by CTRKParser.__init__ (and rebuilt by
\* _parse_lap_range).
InitialState ==
    [rpm |-> 0, gear |-> 0, aps |-> 0, tps |-> 0,
     water_temp |-> 0, intake_temp |-> 0,
     front_speed |-> 0, rear_speed |-> 0,
     front_brake |-> 0, rear_brake |-> 0,
     acc_x |-> 0, acc_y |-> 0,
     lean |-> 0, lean_signed |-> 0, pitch |-> 0,
     f_abs |-> FALSE, r_abs |-> FALSE,
     tcs |-> 0, scs |-> 0, lif |-> 0, launch |-> 0,
     fuel |-> 0]

\* ------------------------------------------------------------------------
\* CAN handlers.  A handler result is [state, fuel, raised]: the channel
\* state and the fuel accumulator after the statements that ran, and whether
\* an index past the end of the payload raised IndexError (the statements
\* before the failing one have taken effect).
\* ------------------------------------------------------------------------

Ran(st, fa) == [state |-> st, fuel |-> fa, raised |-> FALSE]
Raised(st, fa) == [state |-> st, fuel |-> fa, raised |-> TRUE]

\* parse_can_0x0209 without the rejection of gear 7.
parse_can_0x0209_StoresSeven(d, st, fa) ==
    IF Len(d) < 2 THEN Raised(st, fa)
    ELSE LET s1 == [st EXCEPT !.rpm = U16BE(d, 0)]
         IN  IF Len(d) < 5 THEN Raised(s1, fa)
             ELSE Ran([s1 EXCEPT !.gear = Byte(d, 4) % 8], fa)

parse_can_0x0209(d, st, fa) ==
    IF Len(d) < 2 THEN Raised(st, fa)
    ELSE LET s1 == [st EXCEPT !.rpm = U16BE(d, 0)]
         IN  IF Len(d) < 5 THEN Raised(s1, fa)
             ELSE LET gear == Byte(d, 4) % 8
                  IN  IF gear # 7 THEN Ran([s1 EXCEPT !.gear = gear], fa)
                                  ELSE Ran(s1, fa)

parse_can_0x0215(d, st, fa) ==
    IF Len(d) < 2 THEN Raised(st, fa)
    ELSE LET s1 == [st EXCEPT !.tps = U16BE(d, 0)]
         IN  IF Len(d) < 4 THEN Raised(s1, fa)
             ELSE LET s2 == [s1 EXCEPT !.aps = U16BE(d, 2)]
                  IN  IF Len(d) < 7 THEN Raised(s2, fa)
                      ELSE LET s3 == [s2 EXCEPT !.launch =
                                        IF (Byte(d, 6) \div 32) % 4 # 0
                                        THEN 1 ELSE 0]
                           IN  IF Len(d) < 8 THEN Raised(s3, fa)
                               ELSE Ran([s3 EXCEPT
                                           !.tcs = Bit(Byte(d, 7), 5),
                                           !.scs = Bit(Byte(d, 7), 4),
                                           !.lif = Bit(Byte(d, 7), 3)], fa)

\* parse_can_0x023e with a 16-bit accumulator.
parse_can_0x023e_Wraps(d, st, fa) ==
    LET fuel_delta == U16BE(d, 2)
    IN  Ran([st EXCEPT !.water_temp = Byte(d, 0),
                       !.intake_temp = Byte(d, 1),
                       !.fuel = Mask16(fa + fuel_delta)],
            Mask16(fa + fuel_delta))

\* Called only with at least 4 data bytes (the caller checks the length).
parse_can_0x023e(d, st, fa) ==
    LET fuel_delta == U16BE(d, 2)
    IN  Ran([st EXCEPT !.water_temp = Byte(d, 0),
                       !.intake_temp = Byte(d, 1),
                       !.fuel = fa + fuel_delta],
            fa + fuel_delta)

parse_can_0x0250(d, st, fa) ==
    IF Len(d) < 2 THEN Raised(st, fa)
    ELSE LET s1 == [st EXCEPT !.acc_x = U16BE(d, 0)]
         IN  IF Len(d) < 4 THEN Raised(s1, fa)
             ELSE Ran([s1 EXCEPT !.acc_y = U16BE(d, 2)], fa)

\* DecodeLean without the truncation of the deviation to a multiple of 100.
DecodeLean_NoTruncation(b0, b1, b2, b3) ==
    LET val1_part == b0 * 16 + (b2 % 16)
        val1 == val1_part * 256
        val2 == (b1 % 16) * 16 + (b3 \div 16)
        sum_val == Mask16(val1 + val2)
        deviation == IF sum_val < LeanCenter
                     THEN LeanCenter - sum_val
                     ELSE Mask16(sum_val - LeanCenter)
    IN  IF deviation <= LeanDeadband
        THEN [lean |-> LeanCenter, lean_signed |-> LeanCenter]
        ELSE [lean |-> Mask16(LeanCenter + deviation),
              lean_signed |-> IF sum_val < LeanCenter
                              THEN LeanCenter - deviation
                              ELSE LeanCenter + deviation]

\* DecodeLean with lean_signed a copy of lean.
DecodeLean_Unsigned(b0, b1, b2, b3) ==
    LET val1_part == b0 * 16 + (b2 % 16)
        val1 == val1_part * 256
        val2 == (b1 % 16) * 16 + (b3 \div 16)
        sum_val == Mask16(val1 + val2)
        deviation == IF sum_val < LeanCenter
                     THEN LeanCenter - sum_val
                     ELSE Mask16(sum_val - LeanCenter)
        deviation_rounded == deviation - (deviation % LeanStep)
    IN  IF deviation <= LeanDeadband
        THEN [lean |-> LeanCenter, lean_signed |-> LeanCenter]
        ELSE [lean |-> Mask16(LeanCenter + deviation_rounded),
              lean_signed |-> Mask16(LeanCenter + deviation_rounded)]

\* The lean / lean_signed pair decoded from bytes 0..3.
DecodeLean(b0, b1, b2, b3) ==
    LET val1_part == b0 * 16 + (b2 % 16)
        val1 == val1_part * 256
        val2 == (b1 % 16) * 16 + (b3 \div 16)
        sum_val == Mask16(val1 + val2)
        deviation == IF sum_val < LeanCenter
                     THEN LeanCenter - sum_val
                     ELSE Mask16(sum_val - LeanCenter)
        deviation_rounded == deviation - (deviation % LeanStep)
    IN  IF deviation <= LeanDeadband
        THEN [lean |-> LeanCenter, lean_signed |-> LeanCenter]
        ELSE [lean |-> Mask16(LeanCenter + deviation_rounded),
              lean_signed |-> IF sum_val < LeanCenter
                              THEN LeanCenter - deviation_rounded
                              ELSE LeanCenter + deviation_rounded]

parse_can_0x0258(d, st, fa) ==
    IF Len(d) < 4 THEN Raised(st, fa)
    ELSE LET l == DecodeLean(Byte(d, 0), Byte(d, 1), Byte(d, 2), Byte(d, 3))
             s1 == [st EXCEPT !.lean = l.lean, !.lean_signed = l.lean_signed]
         IN  IF Len(d) < 8 THEN Raised(s1, fa)
             ELSE Ran([s1 EXCEPT !.pitch = U16BE(d, 6)], fa)

parse_can_0x0260(d, st, fa) ==
    IF Len(d) < 2 THEN Raised(st, fa)
    ELSE LET s1 == [st EXCEPT !.front_brake = U16BE(d, 0)]
         IN  IF Len(d) < 4 THEN Raised(s1, fa)
             ELSE Ran([s1 EXCEPT !.rear_brake = U16BE(d, 2)], fa)

parse_can_0x0264(d, st, fa) ==
    IF Len(d) < 2 THEN Raised(st, fa)
    ELSE LET s1 == [st EXCEPT !.front_speed = U16BE(d, 0)]
         IN  IF Len(d) < 4 THEN Raised(s1, fa)
             ELSE Ran([s1 EXCEPT !.rear_speed = U16BE(d, 2)], fa)

parse_can_0x0268(d, st, fa) ==
    IF Len(d) < 5 THEN Raised(st, fa)
    ELSE Ran([st EXCEPT !.r_abs = (Byte(d, 4) % 2 = 1),
                        !.f_abs = (Bit(Byte(d, 4), 1) = 1)], fa)

\* CAN_HANDLERS[can_id](can_data, state)
CallHandler(can_id, d, st, fa) ==
    CASE can_id = CAN_0x0209 -> parse_can_0x0209(d, st, fa)
      [] can_id = CAN_0x0215 -> parse_can_0x0215(d, st, fa)
      [] can_id = CAN_0x0250 -> parse_can_0x0250(d, st, fa)
      [] can_id = CAN_0x0258 -> parse_can_0x0258(d, st, fa)
      [] can_id = CAN_0x0260 -> parse_can_0x0260(d, st, fa)
      [] can_id = CAN_0x0264 -> parse_can_0x0264(d, st, fa)
      [] can_id = CAN_0x0268 -> parse_can_0x0268(d, st, fa)

\* DispatchCan with identifiers outside the table handled as 0x0209.
DispatchCan_UnknownAsEngine(can_id, d, st, fa) ==
    IF can_id = CAN_0x023E /\ Len(d) >= 4 THEN parse_can_0x023e(d, st, fa)
    ELSE IF can_id \in CAN_HANDLERS THEN CallHandler(can_id, d, st, fa)
    ELSE IF can_id # CAN_0x023E THEN parse_can_0x0209(d, st, fa)
    ELSE Ran(st, fa)

\* The CAN branch of the record loop: payload of at least 5 bytes, the
\* identifier in its first two bytes, the data bytes from offset 5 on.
DispatchCan(can_id, d, st, fa) ==
    IF can_id = CAN_0x023E /\ Len(d) >= 4 THEN parse_can_0x023e(d, st, fa)
    ELSE IF can_id \in CAN_HANDLERS THEN CallHandler(can_id, d, st, fa)
    ELSE Ran(st, fa)

\* ------------------------------------------------------------------------
\* Records of the data section
\* ------------------------------------------------------------------------

\* A 10-byte timestamp field is <<millis, sec, min>>: the calendar bytes above
\* the minutes are the same for all records of the model (one recording hour).
Ts(millis, sec, min) == <<millis, sec, min>>

\* The millis field read from its low byte alone.
Millis_LowByte(ts) == ts[1] % 256

\* ts_bytes[0] | (ts_bytes[1] << 8)
Millis(ts) == ts[1]

\* ts_bytes[2:10]
SecondsAndHigher(ts) == <<ts[2], ts[3]>>

\* datetime(year, month, day, hour, min_, sec) accepts its arguments: the
\* second and the minute are in 0..59 (the hour and the date of the model's
\* timestamps are valid ones).
CalendarOk(ts) == ts[2] \in 0..59 /\ ts[3] \in 0..59

\* The outcome of a conversion whose datetime() raises ValueError.
ValueError == "ValueError"

\* _get_time_data leaving the seconds field out of the conversion.
get_time_data_NoSeconds(ts) ==
    IF CalendarOk(ts) THEN (ts[3] * 60 * 1000) + Millis(ts)
    ELSE ValueError

\* _get_time_data: the calendar fields converted to epoch milliseconds
\* (counted from the start of the recording hour) plus the millis field;
\* ValueError when datetime() rejects the second or the minute.
get_time_data(ts) ==
    IF CalendarOk(ts) THEN ((ts[3] * 60 + ts[2]) * 1000) + Millis(ts)
    ELSE ValueError

\* A NMEA sentence: its talker/type prefix, the XOR of the characters between
\* '$' and '*', the two hex digits after '*' (None when there is no '*' or
\* no hex digits), and the comma separated fields of a GPRMC sentence.
\* `parts` is the number of comma separated fields. The numeric pieces are
\* the degrees of the latitude (its first two characters) and of the
\* longitude (its first three), the minutes of each (the rest of the
\* field) counted in quarters of a degree (00.00, 15.00, 30.00, 45.00 are
\* 0, 1, 2, 3) and the speed in knots. `empty` holds the names of the
\* pieces whose text is empty, `garbled` the names of those whose text is
\* not a number; the value of such a piece is not read.
NoSentence ==
    [prefix |-> "", computed |-> 0, stated |-> None, parts |-> 1,
     status |-> "",
     lat_dd |-> 0, lat_quarters |-> 0, ns |-> "",
     lon_ddd |-> 0, lon_quarters |-> 0, ew |-> "", knots |-> 0,
     empty |-> {}, garbled |-> {}]

\* A complete $GPRMC sentence: 12 fields after the prefix and before the
\* checksum (time, status, latitude, N/S, longitude, E/W, speed, course,
\* date, variation, its direction, mode), 13 parts with the prefix.
Gprmc(status, lat_dd, lat_q, ns, lon_ddd, lon_q, ew, knots, computed, stated) ==
    [prefix |-> "$GPRMC", computed |-> computed, stated |-> stated,
     parts |-> 13,
     status |-> status, lat_dd |-> lat_dd, lat_quarters |-> lat_q,
     ns |-> ns, lon_ddd |-> lon_ddd, lon_quarters |-> lon_q,
     ew |-> ew, knots |-> knots,
     empty |-> {}, garbled |-> {}]

\* A record as the loop reads it at `pos`: the header fields, the payload,
\* and `avail`, the number of bytes from `pos` to the end of the buffer.
CanRecord(ts, can_id, can_data) ==
    [rec_type |-> 1, total_size |-> HeaderSize + 5 + Len(can_data),
     avail |-> MaxRecordSize, ts_bytes |-> ts,
     can_id |-> can_id, can_data |-> can_data, sentence |-> NoSentence]

NmeaRecord(ts, sentence) ==
    [rec_type |-> 2, total_size |-> HeaderSize + 60,
     avail |-> MaxRecordSize, ts_bytes |-> ts,
     can_id |-> 0, can_data |-> <<>>, sentence |-> sentence]

PlainRecord(rec_type, total_size, avail, ts) ==
    [rec_type |-> rec_type, total_size |-> total_size,
     avail |-> avail, ts_bytes |-> ts,
     can_id |-> 0, can_data |-> <<>>, sentence |-> NoSentence]

\* len(payload)
PayloadLen(r) == r.total_size - HeaderSize

\* StopsLoop without the upper bound on total_size.
StopsLoop_IgnoresOversize(r) ==
    \/ r.avail < HeaderSize
    \/ r.rec_type = 0 /\ r.total_size = 0
    \/ r.total_size < HeaderSize
    \/ r.rec_type \notin {1, 2, 3, 4, 5}
    \/ r.total_size > r.avail

\* StopsLoop without the lower bound on total_size.
StopsLoop_AllowsUndersize(r) ==
    \/ r.avail < HeaderSize
    \/ r.rec_type = 0 /\ r.total_size = 0
    \/ r.total_size > MaxRecordSize
    \/ r.rec_type \notin {1, 2, 3, 4, 5}
    \/ r.total_size > r.avail

\* The loop condition and the three break tests of the record loop.
StopsLoop(r) ==
    \/ r.avail < HeaderSize
    \/ r.rec_type = 0 /\ r.total_size = 0
    \/ r.total_size < HeaderSize
    \/ r.total_size > MaxRecordSize
    \/ r.rec_type \notin {1, 2, 3, 4, 5}
    \/ r.total_size > r.avail

\* ------------------------------------------------------------------------
\* GPS decoder
\* ------------------------------------------------------------------------

validate_nmea_checksum(s) == s.stated # None /\ s.computed = s.stated

\* float() raises ValueError: on a position piece that is empty or not a
\* number, and on a speed field that is not empty and not a number (the
\* speed field is converted only when it is not empty).
FloatRaises(s) ==
    \/ {"lat_dd", "lat_quarters", "lon_ddd", "lon_quarters"}
          \cap (s.empty \cup s.garbled) # {}
    \/ "knots" \in s.garbled

\* The None of _parse_gprmc_sentence.
NoGpsData ==
    [ok |-> FALSE, latitude |-> 0, longitude |-> 0, speed_knots |-> 0]

\* _parse_gprmc_sentence without the test of the status field.
parse_gprmc_sentence_AnyStatus(s) ==
    IF s.parts < 8 THEN NoGpsData
    ELSE IF FloatRaises(s) THEN NoGpsData
    ELSE LET lat == s.lat_dd * CoordScale + s.lat_quarters
             lon == s.lon_ddd * CoordScale + s.lon_quarters
         IN  [ok |-> TRUE,
              latitude |-> IF s.ns = "S" THEN 0 - lat ELSE lat,
              longitude |-> IF s.ew = "W" THEN 0 - lon ELSE lon,
              speed_knots |-> IF "knots" \in s.empty THEN 0 ELSE s.knots]

\* _parse_gprmc_sentence: None (ok = FALSE) when the sentence has fewer than
\* 8 fields, when the status field is not 'A', or when float() raises
\* (ValueError, caught); otherwise lat = dd + mm / 60, negated for 'S',
\* lon = ddd + mm / 60, negated for 'W', and the speed in knots, 0.0 for an
\* empty speed field.
parse_gprmc_sentence(s) ==
    IF s.parts < 8 \/ s.status # "A" THEN NoGpsData
    ELSE IF FloatRaises(s) THEN NoGpsData
    ELSE LET lat == s.lat_dd * CoordScale + s.lat_quarters
             lon == s.lon_ddd * CoordScale + s.lon_quarters
         IN  [ok |-> TRUE,
              latitude |-> IF s.ns = "S" THEN 0 - lat ELSE lat,
              longitude |-> IF s.ew = "W" THEN 0 - lon ELSE lon,
              speed_knots |-> IF "knots" \in s.empty THEN 0 ELSE s.knots]

\* ------------------------------------------------------------------------
\* Lap detection
\* ------------------------------------------------------------------------

\* The sign of a number.
Sign(x) == IF x > 0 THEN 1 ELSE IF x < 0 THEN 0 - 1 ELSE 0

\* A finish line is <<p1_lat, p1_lng, p2_lat, p2_lng>>; <<>> is None.
\* FinishLine.side_of_line, in units of 1 / CoordScale^2 square degree: on
\* quarters of a degree the products and the difference of the code are
\* exact, and a point on the line has side 0.0.
side_of_line(fl, lat, lng) ==
    LET dx == fl[4] - fl[2]
        dy == fl[3] - fl[1]
        px == lng - fl[2]
        py == lat - fl[1]
    IN  dx * py - dy * px

\* crosses_line without the bound on the intersection parameter.
crosses_line_NoSegmentBound(fl, lat1, lng1, lat2, lng2) ==
    LET side1 == side_of_line(fl, lat1, lng1)
        side2 == side_of_line(fl, lat2, lng2)
        denom == (fl[4] - fl[2]) * (lat2 - lat1) - (fl[3] - fl[1]) * (lng2 - lng1)
    IN  IF Sign(side1) * Sign(side2) >= 0 THEN FALSE
        ELSE denom # 0

\* FinishLine.crosses_line. `side1 * side2 >= 0` is decided on the signs of
\* the two sides (the product of the sides of two no-fix sentinels exceeds
\* 32 bits); abs(denom) < 1e-12 is denom = 0 on quarters of a degree; and
\* 0 <= t <= 1 for t = num / denom is decided on num and denom.
crosses_line(fl, lat1, lng1, lat2, lng2) ==
    LET side1 == side_of_line(fl, lat1, lng1)
        side2 == side_of_line(fl, lat2, lng2)
        dx1 == fl[4] - fl[2]
        dy1 == fl[3] - fl[1]
        dx2 == lng2 - lng1
        dy2 == lat2 - lat1
        denom == dx1 * dy2 - dy1 * dx2
        num == (lng1 - fl[2]) * dy2 - (lat1 - fl[1]) * dx2
    IN  IF Sign(side1) * Sign(side2) >= 0 THEN FALSE
        ELSE IF denom = 0 THEN FALSE
        ELSE IF denom > 0 THEN 0 <= num /\ num <= denom
        ELSE denom <= num /\ num <= 0

\* _check_lap_crossing counting two laps per crossing.
check_lap_crossing_SkipsLap(s, lat, lng) ==
    IF s.finish_line = <<>> THEN s
    ELSE IF s.prev_lat = 0 /\ s.prev_lng = 0
    THEN [s EXCEPT !.prev_lat = lat, !.prev_lng = lng]
    ELSE LET s1 == [s EXCEPT !.prev_lat = lat, !.prev_lng = lng]
         IN  IF crosses_line(s.finish_line, s.prev_lat, s.prev_lng, lat, lng)
             THEN [s1 EXCEPT !.current_lap = @ + 2,
                             !.fuel_accumulator = 0,
                             !.state.fuel = 0]
             ELSE s1

\* _check_lap_crossing without the fuel reset of a crossing.
check_lap_crossing_KeepsFuel(s, lat, lng) ==
    IF s.finish_line = <<>> THEN s
    ELSE IF s.prev_lat = 0 /\ s.prev_lng = 0
    THEN [s EXCEPT !.prev_lat = lat, !.prev_lng = lng]
    ELSE LET s1 == [s EXCEPT !.prev_lat = lat, !.prev_lng = lng]
         IN  IF crosses_line(s.finish_line, s.prev_lat, s.prev_lng, lat, lng)
             THEN [s1 EXCEPT !.current_lap = @ + 1]
             ELSE s1

\* _check_lap_crossing on the object fields s, returning the fields after it.
check_lap_crossing(s, lat, lng) ==
    IF s.finish_line = <<>> THEN s
    ELSE IF s.prev_lat = 0 /\ s.prev_lng = 0
    THEN [s EXCEPT !.prev_lat = lat, !.prev_lng = lng]
    ELSE LET crossed == crosses_line(s.finish_line, s.prev_lat, s.prev_lng,
                                     lat, lng)
             s1 == [s EXCEPT !.prev_lat = lat, !.prev_lng = lng]
         IN  IF crossed
             THEN [s1 EXCEPT !.current_lap = @ + 1,
                             !.fuel_accumulator = 0,
                             !.state.fuel = 0]
             ELSE s1

\* _create_record: the snapshot of the channel state as a sample.
create_record(s, time_ms, lat, lon, speed_knots) ==
    [lap |-> s.current_lap, time_ms |-> time_ms,
     latitude |-> lat, longitude |-> lon, gps_speed_knots |-> speed_knots,
     rpm |-> s.state.rpm, gear |-> s.state.gear,
     aps |-> s.state.aps, tps |-> s.state.tps,
     water_temp |-> s.state.water_temp, intake_temp |-> s.state.intake_temp,
     front_speed |-> s.state.front_speed, rear_speed |-> s.state.rear_speed,
     front_brake |-> s.state.front_brake, rear_brake |-> s.state.rear_brake,
     acc_x |-> s.state.acc_x, acc_y |-> s.state.acc_y,
     lean |-> s.state.lean, lean_signed |-> s.state.lean_signed,
     pitch |-> s.state.pitch,
     f_abs |-> s.state.f_abs, r_abs |-> s.state.r_abs,
     tcs |-> s.state.tcs, scs |-> s.state.scs, lif |-> s.state.lif,
     launch |-> s.state.launch, fuel |-> s.state.fuel]

\* ------------------------------------------------------------------------
\* State
\* ------------------------------------------------------------------------

VARIABLES
    header_finish_line, \* the RECORDLINE entries of the file header
    data,               \* the records of the data section read so far
    native_mode,        \* CTRKParser.native_mode
    self,               \* the fields of the CTRKParser object
    loc,                \* the local variables of the running record loop
    pc,                 \* "init", "loop", "done" or "raised"
    pos,                \* number of records the running pass has consumed
    calls,              \* number of parse() calls made
    returned,           \* the sample list each completed parse() call returned
    epochs,             \* current_epoch_ms after each record of the running pass
    emits               \* for each element of self.records: where it was appended

vars == <<header_finish_line, data, native_mode, self, loc, pc, pos, calls,
          returned, epochs, emits>>

\* CTRKParser.__init__
NewParser ==
    [state |-> InitialState, fuel_accumulator |-> 0, finish_line |-> <<>>,
     current_lap |-> 1, prev_lat |-> 0, prev_lng |-> 0, records |-> <<>>]

\* The local variables at the head of _parse_data_section and of
\* _parse_lap_range.
NewLocals ==
    [prev_ts_bytes |-> <<>>, prev_epoch_ms |-> 0, current_epoch_ms |-> 0,
     last_emitted_ms |-> None, gps_count |-> 0, can_count |-> 0,
     checksum_failures |-> 0,
     current_lat |-> NoFix, current_lon |-> NoFix, current_speed_knots |-> 0,
     has_gprmc |-> FALSE]

\* The reset of _parse_lap_range without the zeroing of the channel state.
ResetForLap_KeepsState(s, lap_number) ==
    [s EXCEPT !.fuel_accumulator = 0, !.current_lap = lap_number]

\* The state reset of _parse_lap_range without the lap number assignment.
ResetForLap_KeepsLap(s, lap_number) ==
    [s EXCEPT !.state = InitialState, !.fuel_accumulator = 0]

\* The "full state reset" at the head of _parse_lap_range.
ResetForLap(s, lap_number) ==
    [s EXCEPT !.state = InitialState, !.fuel_accumulator = 0,
              !.current_lap = lap_number]

\* ------------------------------------------------------------------------
\* The record loop, stage by stage.  A stage maps a pass state
\* [self, loc, emits, raised] to the pass state after it.
\* ------------------------------------------------------------------------

\* The timestamp computation without the millis rollover repair.
StageTime_NoRepair(p, r) ==
    LET l == p.loc
        ts == r.ts_bytes
        full == l.prev_ts_bytes = <<>>
                \/ SecondsAndHigher(ts) # SecondsAndHigher(l.prev_ts_bytes)
        l1 == IF l.prev_ts_bytes = <<>> \/ ts # l.prev_ts_bytes
              THEN LET e == IF l.prev_ts_bytes = <<>>
                            THEN get_time_data(ts)
                            ELSE IF SecondsAndHigher(ts) = SecondsAndHigher(l.prev_ts_bytes)
                            THEN Millis(ts) + (l.prev_epoch_ms - Millis(l.prev_ts_bytes))
                            ELSE get_time_data(ts)
                   IN  [l EXCEPT !.current_epoch_ms = e, !.prev_epoch_ms = e,
                                 !.prev_ts_bytes = ts]
              ELSE l
        l2 == IF l1.last_emitted_ms = None
              THEN [l1 EXCEPT !.last_emitted_ms = l1.current_epoch_ms]
              ELSE l1
    IN  IF full /\ ~CalendarOk(ts) THEN [p EXCEPT !.raised = TRUE]
        ELSE [p EXCEPT !.loc = l2]

\* Timestamp computation (GetTimeDataEx) and emission clock initialisation;
\* the ValueError of _get_time_data is not caught.
StageTime(p, r) ==
    LET l == p.loc
        ts == r.ts_bytes
        full == l.prev_ts_bytes = <<>>
                \/ SecondsAndHigher(ts) # SecondsAndHigher(l.prev_ts_bytes)
        l1 == IF l.prev_ts_bytes = <<>> \/ ts # l.prev_ts_bytes
              THEN LET e == IF l.prev_ts_bytes = <<>>
                            THEN get_time_data(ts)
                            ELSE IF SecondsAndHigher(ts) = SecondsAndHigher(l.prev_ts_bytes)
                            THEN LET prev_millis == Millis(l.prev_ts_bytes)
                                     curr_millis == Millis(ts)
                                     inc == curr_millis + (l.prev_epoch_ms - prev_millis)
                                 IN  IF curr_millis < prev_millis THEN inc + 1000
                                                                  ELSE inc
                            ELSE get_time_data(ts)
                   IN  [l EXCEPT !.current_epoch_ms = e, !.prev_epoch_ms = e,
                                 !.prev_ts_bytes = ts]
              ELSE l
        l2 == IF l1.last_emitted_ms = None
              THEN [l1 EXCEPT !.last_emitted_ms = l1.current_epoch_ms]
              ELSE l1
    IN  IF full /\ ~CalendarOk(ts) THEN [p EXCEPT !.raised = TRUE]
        ELSE [p EXCEPT !.loc = l2]

\* self.records.append(record), with the place of the append.
AppendSample(p, time_ms, at, kind) ==
    [p EXCEPT
       !.self.records = Append(@, create_record(p.self, time_ms,
                                   p.loc.current_lat, p.loc.current_lon,
                                   p.loc.current_speed_knots)),
       !.emits = Append(@, [at |-> at, kind |-> kind])]

\* The CAN branch: `rec_type == 1 and len(payload) >= 5`.
StageCan(p, r) ==
    LET res == DispatchCan(r.can_id, r.can_data, p.self.state,
                           p.self.fuel_accumulator)
        p1 == [p EXCEPT !.self.state = res.state,
                        !.self.fuel_accumulator = res.fuel]
    IN  [p1 EXCEPT !.raised = res.raised]

\* The position update of a checksum-valid GPRMC sentence.
GpsUpdate(l, s) ==
    LET gps_data == parse_gprmc_sentence(s)
    IN  IF gps_data.ok
        THEN [l EXCEPT !.current_lat = gps_data.latitude,
                       !.current_lon = gps_data.longitude,
                       !.current_speed_knots = gps_data.speed_knots]
        ELSE l

\* AcceptsGprmc without the checksum validation.
AcceptsGprmc_NoChecksum(s) == s.prefix = "$GPRMC"

\* Does this sentence open the GPS gate / update the position?
AcceptsGprmc(s) == s.prefix = "$GPRMC" /\ validate_nmea_checksum(s)

\* StageNmea stamping the initial sample with the epoch of the $GPRMC record.
StageNmea_StampsGprmc(p, r, at) ==
    LET s == r.sentence
    IN  IF s.prefix # "$GPRMC" THEN p
        ELSE IF ~AcceptsGprmc(s)
        THEN [p EXCEPT !.loc.checksum_failures = @ + 1]
        ELSE LET p1 == [p EXCEPT !.loc = GpsUpdate(@, s)]
             IN  IF p1.loc.has_gprmc THEN p1
                 ELSE LET p2 == [p1 EXCEPT
                                   !.loc.has_gprmc = TRUE,
                                   !.self = check_lap_crossing(@,
                                              p1.loc.current_lat,
                                              p1.loc.current_lon)]
                          p3 == AppendSample(p2, p2.loc.current_epoch_ms, at,
                                             "initial")
                      IN  [p3 EXCEPT !.loc.gps_count = @ + 1]

\* The NMEA branch of _parse_data_section: `rec_type == 2 and len(payload) > 6`.
StageNmea(p, r, at) ==
    LET s == r.sentence
    IN  IF s.prefix # "$GPRMC" THEN p
        ELSE IF ~AcceptsGprmc(s)
        THEN [p EXCEPT !.loc.checksum_failures = @ + 1]
        ELSE LET p1 == [p EXCEPT !.loc = GpsUpdate(@, s)]
             IN  IF p1.loc.has_gprmc THEN p1
                 ELSE LET p2 == [p1 EXCEPT
                                   !.loc.has_gprmc = TRUE,
                                   !.self = check_lap_crossing(@,
                                              p1.loc.current_lat,
                                              p1.loc.current_lon)]
                          p3 == AppendSample(p2, p2.loc.last_emitted_ms, at,
                                             "initial")
                      IN  [p3 EXCEPT !.loc.gps_count = @ + 1]

\* The lap marker branch leaving the emission clock alone.
StageMarker_NoRealign(p) == p

\* The lap marker branch starting a new lap as well.
StageMarker_NewLap(p) ==
    [p EXCEPT !.loc.last_emitted_ms = p.loc.current_epoch_ms,
              !.self.current_lap = @ + 1,
              !.self.fuel_accumulator = 0,
              !.self.state.fuel = 0]

\* The lap marker branch of _parse_data_section: `rec_type == 5`.
StageMarker(p) == [p EXCEPT !.loc.last_emitted_ms = p.loc.current_epoch_ms]

\* "Process payload by record type" in _parse_data_section.
StagePayload(p, r, at) ==
    IF r.rec_type = 1 /\ PayloadLen(r) >= 5
    THEN LET p1 == StageCan(p, r)
         IN  IF p1.raised THEN p1 ELSE [p1 EXCEPT !.loc.can_count = @ + 1]
    ELSE IF r.rec_type = 2 /\ PayloadLen(r) > 6 THEN StageNmea(p, r, at)
    ELSE IF r.rec_type = 5 THEN StageMarker(p)
    ELSE p

\* EmissionDue firing on any advance of the clock.
EmissionDue_AnyAdvance(l) ==
    l.has_gprmc /\ l.current_epoch_ms - l.last_emitted_ms > 0

\* Is a periodic sample due?
EmissionDue(l) ==
    l.has_gprmc /\ l.current_epoch_ms - l.last_emitted_ms >= EmitIntervalMs

\* "Emission check (100ms interval)" in _parse_data_section.
StageEmit(p, at) ==
    IF ~EmissionDue(p.loc) THEN p
    ELSE LET p1 == [p EXCEPT !.self = check_lap_crossing(@, p.loc.current_lat,
                                                         p.loc.current_lon)]
             p2 == AppendSample(p1, p1.loc.current_epoch_ms, at, "periodic")
         IN  [p2 EXCEPT !.loc.gps_count = @ + 1,
                        !.loc.last_emitted_ms = p2.loc.current_epoch_ms]

\* Is the final sample due?
FinalDue(l) == l.has_gprmc /\ l.last_emitted_ms # None

\* StageFinal stamping the final sample with the epoch recomputed from the
\* raw timestamp of the last record (no millisecond-rollover compensation).
StageFinal_Recomputed(p, at) ==
    IF ~FinalDue(p.loc) THEN p
    ELSE LET p1 == [p EXCEPT !.self = check_lap_crossing(@, p.loc.current_lat,
                                                         p.loc.current_lon)]
             p2 == AppendSample(p1, get_time_data(p1.loc.prev_ts_bytes), at,
                                "final")
         IN  [p2 EXCEPT !.loc.gps_count = @ + 1]

\* "Final record emission" in _parse_data_section.
StageFinal(p, at) ==
    IF ~FinalDue(p.loc) THEN p
    ELSE LET p1 == [p EXCEPT !.self = check_lap_crossing(@, p.loc.current_lat,
                                                         p.loc.current_lon)]
             p2 == AppendSample(p1, p1.loc.current_epoch_ms, at, "final")
         IN  [p2 EXCEPT !.loc.gps_count = @ + 1]

\* The loop iteration with the emission check ahead of the payload.
DataSectionIteration_EmitFirst(p, r, at) ==
    LET p0 == StageTime(p, r)
    IN  IF p0.raised THEN p0 ELSE StagePayload(StageEmit(p0, at), r, at)

\* One iteration of the loop of _parse_data_section on a well-formed record.
DataSectionIteration(p, r, at) ==
    LET p0 == StageTime(p, r)
        p1 == StagePayload(p0, r, at)
    IN  IF p0.raised THEN p0
        ELSE IF p1.raised THEN p1 ELSE StageEmit(p1, at)

\* The NMEA branch of _parse_lap_range (no lap check, no counters).
LapStageNmea(p, r, at) ==
    LET s == r.sentence
    IN  IF ~AcceptsGprmc(s) THEN p
        ELSE LET p1 == [p EXCEPT !.loc = GpsUpdate(@, s)]
             IN  IF p1.loc.has_gprmc THEN p1
                 ELSE AppendSample([p1 EXCEPT !.loc.has_gprmc = TRUE],
                                   p1.loc.last_emitted_ms, at, "initial")

\* "Payload processing" in _parse_lap_range.
LapStagePayload(p, r, at) ==
    IF r.rec_type = 1 /\ PayloadLen(r) >= 5 THEN StageCan(p, r)
    ELSE IF r.rec_type = 2 /\ PayloadLen(r) > 6 THEN LapStageNmea(p, r, at)
    ELSE p

\* "Emission check" in _parse_lap_range.
LapStageEmit(p, at) ==
    IF ~EmissionDue(p.loc) THEN p
    ELSE LET p1 == AppendSample(p, p.loc.current_epoch_ms, at, "periodic")
         IN  [p1 EXCEPT !.loc.last_emitted_ms = p1.loc.current_epoch_ms]

\* "Final emission for this lap" in _parse_lap_range.
LapStageFinal(p, at) ==
    IF ~FinalDue(p.loc) THEN p
    ELSE AppendSample(p, p.loc.current_epoch_ms, at, "final")

\* One iteration of the loop of _parse_lap_range on a well-formed record.
LapRangeIteration(p, r, at) ==
    LET p0 == StageTime(p, r)
        p1 == LapStagePayload(p0, r, at)
    IN  IF p0.raised THEN p0
        ELSE IF p1.raised THEN p1 ELSE LapStageEmit(p1, at)

\* ------------------------------------------------------------------------
\* Inputs of the model
\* ------------------------------------------------------------------------

\* Finish line P1 = (0, 0), P2 = (0, 1) in (lat, lng) degrees.
FinishLineP == <<0, 0, 0, 1 * CoordScale>>

\* The RECORDLINE entries of a header: each coordinate is absent (<<>>) or
\* present with its value (<<v>>).
NoTags == [p1_lat |-> <<>>, p1_lng |-> <<>>, p2_lat |-> <<>>, p2_lng |-> <<>>]
FullTags == [p1_lat |-> <<FinishLineP[1]>>, p1_lng |-> <<FinishLineP[2]>>,
             p2_lat |-> <<FinishLineP[3]>>, p2_lng |-> <<FinishLineP[4]>>]

\* parse_finish_line defaulting a missing coordinate to 0.
parse_finish_line_DefaultsMissing(h) ==
    IF h = NoTags THEN <<>>
    ELSE LET v(t) == IF t = <<>> THEN 0 ELSE t[1]
         IN  <<v(h.p1_lat), v(h.p1_lng), v(h.p2_lat), v(h.p2_lng)>>

\* parse_finish_line: the finish line, or <<>> (None) if a tag is missing.
parse_finish_line(h) ==
    IF h.p1_lat = <<>> THEN <<>>
    ELSE IF h.p1_lng = <<>> THEN <<>>
    ELSE IF h.p2_lat = <<>> THEN <<>>
    ELSE IF h.p2_lng = <<>> THEN <<>>
    ELSE <<h.p1_lat[1], h.p1_lng[1], h.p2_lat[1], h.p2_lng[1]>>

\* Timestamps: 0 ms and 60 ms of one second, 60 ms of the next second.
T0 == Ts(0, 0, 0)
T60 == Ts(60, 0, 0)
T1060 == Ts(60, 1, 0)
Timestamps == {T0, T60, T1060}

\* 0x023E: water 176, intake 80, fuel delta 10.
FuelFrame == <<176, 80, 0, 10>>
\* 0x0258: interleaved nibbles of sum 12345 (0x3039), pitch 30000.
LeanFrame == <<3, 3, 0, 144, 0, 0, 117, 48>>
\* 0x0258 cut after its fourth data byte.
ShortLeanFrame == <<3, 3, 0, 144>>

\* Active fixes at (-1.0, 0.5) and (1.0, 0.5): the two sides of the line.
FixSouth == Gprmc("A", 1, 0, "S", 0, 2, "E", 10, 77, 77)
FixNorth == Gprmc("A", 1, 0, "N", 0, 2, "E", 20, 78, 78)
\* A void sentence with a valid checksum.
VoidFix == Gprmc("V", 0, 0, "", 0, 0, "", 0, 90, 90)
\* An active sentence whose stated checksum differs from the computed one.
BadChecksum == Gprmc("A", 1, 0, "N", 0, 2, "E", 20, 78, 79)

\* The well-formed records the data section is made of.
Records ==
    UNION {
      { CanRecord(ts, CAN_0x023E, FuelFrame),
        CanRecord(ts, CAN_0x0258, LeanFrame),
        CanRecord(ts, CAN_0x0258, ShortLeanFrame),
        NmeaRecord(ts, FixSouth),
        NmeaRecord(ts, FixNorth),
        NmeaRecord(ts, VoidFix),
        NmeaRecord(ts, BadChecksum),
        PlainRecord(5, HeaderSize, MaxRecordSize, ts) } : ts \in Timestamps }

\* What the data section can end with: the end of the buffer, the
\* end-of-stream record, a record of an invalid type.
EndOfInput == PlainRecord(0, 0, 0, T0)
EndOfStream == PlainRecord(0, 0, MaxRecordSize, T0)
BadType == PlainRecord(6, HeaderSize, MaxRecordSize, T0)
Terminators == {EndOfInput, EndOfStream, BadType}

\* The record at the read position.  `data` holds the well-formed records
\* of the file read so far; the first pass extends it with any continuation
\* of the file, a later pass reads the same records again and then meets
\* the end of the data section.
Input ==
    IF pos < Len(data) THEN {data[pos + 1]}
    ELSE Terminators \cup (IF calls = 1 /\ pos < MaxRecords THEN Records ELSE {})

\* ------------------------------------------------------------------------
\* Actions
\* ------------------------------------------------------------------------

Init ==
    /\ header_finish_line \in {NoTags, FullTags}
    /\ data = <<>>
    /\ native_mode \in BOOLEAN
    /\ self = NewParser
    /\ loc = NewLocals
    /\ pc = "init"
    /\ pos = 0
    /\ calls = 0
    /\ returned = <<>>
    /\ epochs = <<>>
    /\ emits = <<>>

Pass == [self |-> self, loc |-> loc, emits |-> emits, raised |-> FALSE]

\* parse() up to the first loop iteration: the finish line is read from the
\* header; the per-lap driver enters its first lap range.
BeginParse ==
    /\ calls' = calls + 1
    /\ self' = LET s == [self EXCEPT
                          !.finish_line = parse_finish_line(header_finish_line)]
               IN  IF native_mode THEN ResetForLap(s, 1) ELSE s
    /\ loc' = NewLocals
    /\ pc' = "loop"
    /\ pos' = 0
    /\ epochs' = <<>>
    /\ UNCHANGED <<header_finish_line, data, native_mode, returned, emits>>

Parse == pc = "init" /\ BeginParse

\* A second parse() call on the same object and the same file.
Reparse ==
    /\ pc = "done"
    /\ calls = 1
    /\ Len(data) <= MaxReparseRecords
    /\ BeginParse

Consume(r, p, next_pc) ==
    /\ data' = IF pos < Len(data) \/ StopsLoop(r) THEN data ELSE Append(data, r)
    /\ self' = p.self
    /\ loc' = p.loc
    /\ emits' = p.emits
    /\ pc' = IF p.raised THEN "raised" ELSE next_pc
    /\ pos' = IF p.raised THEN pos ELSE pos + 1
    /\ returned' = IF ~p.raised /\ next_pc = "done"
                   THEN Append(returned, p.self.records) ELSE returned
    /\ UNCHANGED <<header_finish_line, native_mode, calls>>

\* _parse_data_section: one loop iteration.
ParseDataSectionRecord ==
    /\ pc = "loop" /\ ~native_mode
    /\ \E r \in Input :
         /\ ~StopsLoop(r)
         /\ LET p == DataSectionIteration(Pass, r, pos + 1)
            IN  /\ Consume(r, p, "loop")
                /\ epochs' = IF StageTime(Pass, r).raised THEN epochs
                              ELSE Append(epochs, p.loc.current_epoch_ms)

\* What ends the loop at the read position; the step that follows is the
\* same whichever test ended it.
LoopEnds == {x \in Input : StopsLoop(x)}

\* _parse_data_section: the loop ends, the final sample is emitted.
ParseDataSectionEnd ==
    /\ pc = "loop" /\ ~native_mode
    /\ LoopEnds # {}
    /\ Consume(CHOOSE r \in LoopEnds : TRUE, StageFinal(Pass, pos + 1), "done")
    /\ UNCHANGED epochs

\* _parse_lap_range: one loop iteration.
ParseLapRangeRecord ==
    /\ pc = "loop" /\ native_mode
    /\ \E r \in Input :
         /\ ~StopsLoop(r) /\ r.rec_type # 5
         /\ LET p == LapRangeIteration(Pass, r, pos + 1)
            IN  /\ Consume(r, p, "loop")
                /\ epochs' = IF StageTime(Pass, r).raised THEN epochs
                              ELSE Append(epochs, p.loc.current_epoch_ms)

\* _parse_perlap: a lap range ends at a type-5 record; its final sample is
\* emitted and the next lap range is entered after the marker.
NextLapRange ==
    /\ pc = "loop" /\ native_mode
    /\ \E r \in Input :
         /\ ~StopsLoop(r) /\ r.rec_type = 5
         /\ LET p == LapStageFinal(Pass, pos + 1)
                q == [p EXCEPT !.self = ResetForLap(@, self.current_lap + 1),
                               !.loc = NewLocals]
            IN  Consume(r, q, "loop")
         /\ epochs' = Append(epochs, None)

\* _parse_perlap: the last lap range ends with the data section.
ParsePerLapEnd ==
    /\ pc = "loop" /\ native_mode
    /\ LoopEnds # {}
    /\ Consume(CHOOSE r \in LoopEnds : TRUE, LapStageFinal(Pass, pos + 1), "done")
    /\ UNCHANGED epochs

Next ==
    \/ Parse
    \/ ParseDataSectionRecord
    \/ ParseDataSectionEnd
    \/ ParseLapRangeRecord
    \/ NextLapRange
    \/ ParsePerLapEnd

Spec == Init /\ [][Next]_vars

NextReparse == Next \/ Reparse

SpecReparse == Init /\ [][NextReparse]_vars

\* ------------------------------------------------------------------------
\* Vocabulary of the properties
\* ------------------------------------------------------------------------

Samples == self.records
NumSamples == Len(self.records)

Max(S) == CHOOSE m \in S : \A x \in S : x <= m

\* Is the k-th record of the data section a processed type-5 lap marker?
IsMarker(k) == data[k].rec_type = 5 /\ ~StopsLoop(data[k])

\* Index of the last lap marker before record k (0: none).
LastMarkerBefore(k) ==
    Max({0} \cup {m \in 1..(k - 1) : m <= Len(data) /\ IsMarker(m)})

\* First record of the partition record k belongs to: in per-lap mode the
\* partitions are cut at the lap markers, in continuous mode there is one.
PartitionStart(k) == IF native_mode THEN LastMarkerBefore(k) + 1 ELSE 1

\* A type-2 record carrying a $GPRMC sentence whose checksum validates.
ValidGprmcRecord(r) ==
    /\ r.rec_type = 2
    /\ r.sentence.prefix = "$GPRMC"
    /\ r.sentence.stated # None
    /\ r.sentence.stated = r.sentence.computed

\* Record j is the first checksum-valid $GPRMC of its partition.
FirstValidGprmc(j) ==
    /\ ValidGprmcRecord(data[j])
    /\ \A i \in PartitionStart(j)..(j - 1) : ~ValidGprmcRecord(data[i])

\* A lap marker was processed between samples i and i + 1.
MarkerBetween(i) ==
    \E k \in emits[i].at..emits[i + 1].at : k <= Len(data) /\ IsMarker(k)

\* ------------------------------------------------------------------------
\* C1 - GPS gate
\* ------------------------------------------------------------------------

\* C1: has_gprmc is false before parsing and is true exactly when a
\* checksum-valid $GPRMC (of any status) has been processed in the current
\* partition; every sample is preceded, inside its partition, by such a
\* record; and the first sample of a partition is appended while the first
\* checksum-valid $GPRMC of that partition is being processed.
C1_GpsGate ==
    /\ pc = "init" => ~loc.has_gprmc
    /\ loc.has_gprmc <=>
         \E j \in PartitionStart(Len(data) + 1)..Len(data) :
            ValidGprmcRecord(data[j])
    /\ \A k \in 1..NumSamples :
         \E j \in PartitionStart(emits[k].at)..emits[k].at :
            j <= Len(data) /\ ValidGprmcRecord(data[j])
    /\ \A j \in 1..Len(data) :
         FirstValidGprmc(j) =>
            \E k \in 1..NumSamples :
               /\ emits[k].at = j
               /\ \A h \in 1..(k - 1) : emits[h].at < PartitionStart(j)

\* A void $GPRMC opened the gate after a checksum-failing $GPRMC had been
\* rejected, and the first sample was emitted.
C1_Witness ==
    /\ NumSamples >= 1
    /\ \E j \in 2..Len(data) :
         /\ data[j].rec_type = 2 /\ data[j].sentence = VoidFix
         /\ FirstValidGprmc(j)
         /\ emits[1].at = j
         /\ \E i \in 1..(j - 1) :
              data[i].rec_type = 2 /\ data[i].sentence = BadChecksum

\* ------------------------------------------------------------------------
\* C2 - 100 ms spacing
\* ------------------------------------------------------------------------

\* C2 as stated: every two consecutive samples after the initial one, with
\* no lap marker processed between them, are at least 100 ms apart, the
\* final-flush sample included.
C2_SpacingIncludingFinal ==
    \A i \in 2..(NumSamples - 1) :
       ~MarkerBetween(i) =>
          Samples[i + 1].time_ms - Samples[i].time_ms >= EmitIntervalMs

\* C2 amended: every two consecutive samples with no lap marker processed
\* between them are at least 100 ms apart, unless the later one is the
\* final-flush sample (which is emitted whatever the time elapsed).
C2_Spacing ==
    \A i \in 1..(NumSamples - 1) :
       (~MarkerBetween(i) /\ emits[i + 1].kind # "final") =>
          Samples[i + 1].time_ms - Samples[i].time_ms >= EmitIntervalMs

\* A periodic sample following its predecessor with no lap marker between
\* them, and a final-flush sample less than 100 ms after the periodic one.
C2_Witness ==
    /\ pc = "done"
    /\ NumSamples >= 3
    /\ emits[NumSamples - 1].kind = "periodic"
    /\ ~MarkerBetween(NumSamples - 2)
    /\ emits[NumSamples].kind = "final"
    /\ Samples[NumSamples].time_ms - Samples[NumSamples - 1].time_ms
          < EmitIntervalMs

\* ------------------------------------------------------------------------
\* C3 - No time reversal
\* ------------------------------------------------------------------------

\* C3 as stated: the epoch_ms of the samples never decreases in emission
\* order, whatever the record stream.
C3_NoTimeReversal ==
    \A i \in 1..(NumSamples - 1) :
       Samples[i + 1].time_ms >= Samples[i].time_ms

\* The reconstructed epochs of the processed records never decrease in
\* stream order (lap markers of the per-lap mode carry no epoch).
EpochsNonDecreasing ==
    \A i, j \in 1..Len(epochs) :
       (i < j /\ epochs[i] # None /\ epochs[j] # None) =>
          epochs[i] <= epochs[j]

\* C3 amended: as long as the reconstructed epochs of the processed records
\* never decrease in stream order, the epoch_ms of the samples never
\* decreases in emission order, in both modes.
C3_NoTimeReversalOnMonotoneInput ==
    EpochsNonDecreasing =>
       \A i, j \in 1..NumSamples :
          i < j => Samples[i].time_ms <= Samples[j].time_ms

\* A finished run over records of non-decreasing epochs with a lap marker,
\* an initial, a periodic and a final sample.
C3_Witness ==
    /\ pc = "done"
    /\ EpochsNonDecreasing
    /\ NumSamples >= 3
    /\ \E k \in 1..Len(data) : IsMarker(k)
    /\ \E i \in 1..NumSamples : emits[i].kind = "periodic"
    /\ Samples[1].time_ms < Samples[NumSamples].time_ms

\* ------------------------------------------------------------------------
\* C4 - Lap contiguity
\* ------------------------------------------------------------------------

\* Number of lap markers before record k.
MarkersBefore(k) ==
    Cardinality({m \in 1..(k - 1) : m <= Len(data) /\ IsMarker(m)})

\* The lap values are a contiguous run starting at 1.
LapsContiguousFromOne ==
    /\ NumSamples >= 1 => Samples[1].lap = 1
    /\ \A i \in 1..(NumSamples - 1) :
         Samples[i + 1].lap - Samples[i].lap \in {0, 1}

\* C4 as stated: in continuous mode and in per-lap mode the lap values of
\* the samples form a contiguous run starting at 1.
C4_LapContiguity == LapsContiguousFromOne

\* C4 amended: in continuous mode the lap values form a contiguous run
\* starting at 1; in per-lap mode the lap value of a sample is the index of
\* its partition (one more than the number of lap markers before it), so
\* laps never decrease but a partition that emits no sample leaves a gap.
C4_LapContiguityByMode ==
    /\ ~native_mode => LapsContiguousFromOne
    /\ native_mode =>
         /\ \A i \in 1..NumSamples :
              Samples[i].lap = MarkersBefore(emits[i].at) + 1
         /\ \A i \in 1..(NumSamples - 1) : Samples[i].lap <= Samples[i + 1].lap

\* A continuous run crossed the finish line: its first sample is in lap 1,
\* its last in lap 2.
C4_Witness ==
    /\ ~native_mode
    /\ NumSamples >= 2
    /\ Samples[1].lap = 1
    /\ Samples[NumSamples].lap = 2

\* ------------------------------------------------------------------------
\* C5 - Fuel per lap
\* ------------------------------------------------------------------------

\* Fuel never decreases among the samples of one lap.
FuelNonDecreasingPerLap ==
    \A i, j \in 1..NumSamples :
       (i < j /\ Samples[i].lap = Samples[j].lap) =>
          Samples[i].fuel <= Samples[j].fuel

\* Sample i is the first sample of a lap greater than 1.
LapIncrementsAt(i) ==
    /\ Samples[i].lap > 1
    /\ i = 1 \/ Samples[i - 1].lap < Samples[i].lap

\* The fuel delta record k adds to the accumulator (0 if it adds nothing).
FuelDeltaOf(k) ==
    IF /\ data[k].rec_type = 1 /\ ~StopsLoop(data[k])
       /\ data[k].can_id = CAN_0x023E /\ Len(data[k].can_data) >= 4
    THEN data[k].can_data[3] * 256 + data[k].can_data[4]
    ELSE 0

\* Sum of the fuel deltas of the records from..to.
RECURSIVE FuelDeltaSum(_, _)
FuelDeltaSum(from, to) ==
    IF to < from \/ to < 1 THEN 0
    ELSE FuelDeltaSum(from, to - 1) + (IF to <= Len(data) THEN FuelDeltaOf(to) ELSE 0)

\* C5 as stated: fuel never decreases among the samples of one lap, and the
\* first sample of every lap greater than 1 has fuel 0.
C5_FuelPerLap ==
    /\ FuelNonDecreasingPerLap
    /\ \A i \in 1..NumSamples : LapIncrementsAt(i) => Samples[i].fuel = 0

\* C5 amended: fuel never decreases among the samples of one lap; in
\* continuous mode the sample at which the lap number increments has fuel 0;
\* in per-lap mode every sample carries the sum of the fuel deltas of the
\* 0x023E frames of its partition consumed before it, so the first sample of
\* a lap has fuel 0 only if no such frame precedes it in the partition.
C5_FuelPerLapByMode ==
    /\ FuelNonDecreasingPerLap
    /\ ~native_mode =>
         \A i \in 1..NumSamples : LapIncrementsAt(i) => Samples[i].fuel = 0
    /\ native_mode =>
         \A i \in 1..NumSamples :
            Samples[i].fuel =
               FuelDeltaSum(PartitionStart(emits[i].at), emits[i].at)

\* A continuous run crossed the finish line after fuel had accumulated: the
\* sample before the increment has fuel > 0, the sample of the increment 0.
C5_Witness ==
    /\ ~native_mode
    /\ \E i \in 2..NumSamples :
         /\ LapIncrementsAt(i)
         /\ Samples[i - 1].fuel > 0
         /\ Samples[i].fuel = 0

\* ------------------------------------------------------------------------
\* C6 - Lean magnitude invariant
\* ------------------------------------------------------------------------

\* C6 as stated: every sample has lean >= 9000 and lean mod 100 = 0, also
\* before any 0x0258 frame and right after the per-partition reset.
C6_LeanMagnitude ==
    \A i \in 1..NumSamples :
       Samples[i].lean >= LeanCenter /\ Samples[i].lean % LeanStep = 0

\* A complete 0x0258 frame was consumed before sample i, since the channel
\* state was last zeroed (construction, or the partition reset).
LeanFrameBefore(i) ==
    \E k \in PartitionStart(emits[i].at)..emits[i].at :
       /\ k <= Len(data)
       /\ data[k].rec_type = 1 /\ ~StopsLoop(data[k])
       /\ data[k].can_id = CAN_0x0258 /\ Len(data[k].can_data) >= 8

\* C6 amended: every sample has lean mod 100 = 0; a sample emitted after a
\* 0x0258 frame has been consumed (in per-lap mode: in its partition) has
\* lean >= 9000, and a sample emitted before any has lean = 0, the initial
\* value of the channel.
C6_LeanMagnitudeAfterFrame ==
    \A i \in 1..NumSamples :
       /\ Samples[i].lean % LeanStep = 0
       /\ IF LeanFrameBefore(i) THEN Samples[i].lean >= LeanCenter
                                ELSE Samples[i].lean = 0

\* A sample emitted before the first 0x0258 frame (lean 0) and a later one
\* with the decoded, truncated lean of sum 12345.
C6_Witness ==
    \E i, j \in 1..NumSamples :
       /\ i < j
       /\ Samples[i].lean = 0
       /\ Samples[j].lean = 12300

\* ------------------------------------------------------------------------
\* C7 - Final flush
\* ------------------------------------------------------------------------

\* C7: once the continuous decoder has stopped reading records, exactly one
\* final sample closes the output, stamped with the reconstructed epoch of
\* the last processed record, if and only if a checksum-valid $GPRMC was
\* seen; if none was seen the output is empty.
C7_FinalFlush ==
    (~native_mode /\ pc \in {"done", "raised"}) =>
       IF \E j \in 1..Len(data) : ValidGprmcRecord(data[j])
       THEN /\ NumSamples >= 1
            /\ emits[NumSamples].kind = "final"
            /\ Samples[NumSamples].time_ms = epochs[Len(epochs)]
            /\ Cardinality({i \in 1..NumSamples : emits[i].kind = "final"}) = 1
       ELSE NumSamples = 0

\* ------------------------------------------------------------------------
\* C8 - Initial sample timestamp
\* ------------------------------------------------------------------------

\* C8 as stated: in continuous mode the initial sample carries the epoch of
\* the very first record of the stream, whatever precedes the $GPRMC.
C8_InitialAtFirstRecord ==
    \A k \in 1..NumSamples :
       (~native_mode /\ emits[k].kind = "initial") =>
          Samples[k].time_ms = epochs[1]

\* C8 amended: the initial sample carries the value of the emission clock:
\* the reconstructed epoch of the latest type-5 record processed before the
\* $GPRMC if there is one, else the epoch of the first record of the stream
\* (in per-lap mode: of the first record of the partition).
C8_InitialAtEmissionClock ==
    \A k \in 1..NumSamples :
       emits[k].kind = "initial" =>
          Samples[k].time_ms =
             IF native_mode THEN epochs[PartitionStart(emits[k].at)]
             ELSE IF LastMarkerBefore(emits[k].at) > 0
                  THEN epochs[LastMarkerBefore(emits[k].at)]
                  ELSE epochs[1]

\* An initial sample stamped with the first record's epoch although the
\* $GPRMC record that opened the gate has a later epoch.
C8_Witness ==
    \E k \in 1..NumSamples :
       /\ ~native_mode
       /\ emits[k].kind = "initial"
       /\ emits[k].at > 1
       /\ LastMarkerBefore(emits[k].at) = 0
       /\ Samples[k].time_ms = epochs[1]
       /\ Samples[k].time_ms < epochs[emits[k].at]

\* ------------------------------------------------------------------------
\* C9 - Re-parse from scratch
\* ------------------------------------------------------------------------

\* C9: a second parse() call on the same object over the same bytes returns
\* exactly the sample sequence the first call returned.
C9_ReparseReturnsSame ==
    Len(returned) = 2 => returned[2] = returned[1]

\* ------------------------------------------------------------------------
\* C10 - Short CAN payload
\* ------------------------------------------------------------------------

\* Number of data bytes the handler of a known identifier reads.
RequiredDataBytes(can_id) ==
    CASE can_id \in {CAN_0x0215, CAN_0x0258} -> 8
      [] can_id \in {CAN_0x0209, CAN_0x0268} -> 5
      [] OTHER -> 4

\* This step reads a CAN record of a known identifier whose data bytes are
\* fewer than its handler needs.
ShortCanStep ==
    /\ pc = "loop"
    /\ Len(data') = Len(data) + 1
    /\ LET r == data'[Len(data')]
       IN  /\ r.rec_type = 1 /\ ~StopsLoop(r) /\ PayloadLen(r) >= 5
           /\ r.can_id \in CAN_HANDLERS \cup {CAN_0x023E}
           /\ Len(r.can_data) < RequiredDataBytes(r.can_id)

\* C10: a CAN record of a known identifier with too few data bytes leaves
\* the whole channel state unchanged, raises no failure, and the loop goes
\* on with the next record.
C10_ShortPayloadSkipped ==
    [][ShortCanStep =>
         /\ self'.state = self.state
         /\ self'.fuel_accumulator = self.fuel_accumulator
         /\ pc' = "loop"]_vars

\* ------------------------------------------------------------------------
\* C11 - Checksum rejection
\* ------------------------------------------------------------------------

\* This step reads a type-2 record carrying a $GPRMC sentence whose XOR
\* checksum does not validate.
BadChecksumStep ==
    /\ pc = "loop"
    /\ pos' = pos + 1 /\ pos' <= Len(data')
    /\ LET r == data'[pos']
       IN  /\ r.rec_type = 2 /\ PayloadLen(r) > 6
           /\ r.sentence.prefix = "$GPRMC"
           /\ ~validate_nmea_checksum(r.sentence)

\* C11: a $GPRMC sentence whose checksum does not validate does not flip
\* has_gprmc, changes neither latitude, longitude nor speed, emits no
\* initial sample, adds exactly 1 to the checksum-failure counter, and the
\* loop goes on with the next record.
C11_ChecksumRejection ==
    [][BadChecksumStep =>
         /\ loc'.has_gprmc = loc.has_gprmc
         /\ loc'.current_lat = loc.current_lat
         /\ loc'.current_lon = loc.current_lon
         /\ loc'.current_speed_knots = loc.current_speed_knots
         /\ \A k \in (Len(emits) + 1)..Len(emits') : emits'[k].kind # "initial"
         /\ loc'.checksum_failures = loc.checksum_failures + 1
         /\ pc' = "loop"]_vars

\* ------------------------------------------------------------------------
\* parse() as a function of the whole data section.  A file is the sequence
\* of its records, well-formed or not; what follows a record that stops the
\* loop is in the file but is never read.
\* ------------------------------------------------------------------------

\* The state a parsing pass starts from on the object fields s.
StartPass(s) == [self |-> s, loc |-> NewLocals, emits |-> <<>>, raised |-> FALSE]

\* _parse_data_section from record i on.
RECURSIVE RunDataSection(_, _, _)
RunDataSection(p, file, i) ==
    IF p.raised THEN p
    ELSE IF i > Len(file) \/ StopsLoop(file[i]) THEN StageFinal(p, i)
    ELSE RunDataSection(DataSectionIteration(p, file[i], i), file, i + 1)

\* _scan_lap_boundaries: the positions of the type-5 records, from i on.
RECURSIVE scan_lap_boundaries(_, _)
scan_lap_boundaries(file, i) ==
    IF i > Len(file) \/ StopsLoop(file[i]) THEN <<>>
    ELSE (IF file[i].rec_type = 5 THEN <<i>> ELSE <<>>)
            \o scan_lap_boundaries(file, i + 1)

\* lap_ranges of _parse_perlap, as <<first record, last record>> pairs.
lap_ranges(file) ==
    LET type5_offsets == scan_lap_boundaries(file, 1)
        n == Len(type5_offsets)
    IN  IF n = 0 THEN << <<1, Len(file)>> >>
        ELSE << <<1, type5_offsets[1] - 1>> >> \o
             [i \in 1..n |-> <<type5_offsets[i] + 1,
                               IF i + 1 <= n THEN type5_offsets[i + 1] - 1
                                             ELSE Len(file)>>]

\* The loop and the final emission of _parse_lap_range, from record i on.
RECURSIVE RunLapRange(_, _, _, _)
RunLapRange(p, file, i, last) ==
    IF p.raised THEN p
    ELSE IF i > last \/ StopsLoop(file[i]) THEN LapStageFinal(p, i)
    ELSE RunLapRange(LapRangeIteration(p, file[i], i), file, i + 1, last)

\* _parse_lap_range(start, end, lap_number)
parse_lap_range(p, file, range, lap_number) ==
    RunLapRange([p EXCEPT !.self = ResetForLap(@, lap_number),
                          !.loc = NewLocals],
                file, range[1], range[2])

\* The loop over the lap ranges of _parse_perlap, from range k on.
RECURSIVE RunLapRanges(_, _, _, _)
RunLapRanges(p, file, ranges, k) ==
    IF p.raised \/ k > Len(ranges) THEN p
    ELSE RunLapRanges(parse_lap_range(p, file, ranges[k], k), file, ranges,
                      k + 1)

\* parse() on a freshly constructed parser.
parse_file(finish_line, native, file) ==
    LET p == StartPass([NewParser EXCEPT !.finish_line = finish_line])
    IN  IF native THEN RunLapRanges(p, file, lap_ranges(file), 1)
                  ELSE RunDataSection(p, file, 1)

\* The record-by-record run of the first parse() call and parse_file agree
\* on the samples and on where they were appended.
StepwiseAgreesWithParseFile ==
    (calls = 1 /\ pc \in {"done", "raised"}) =>
       LET q == parse_file(parse_finish_line(header_finish_line), native_mode, data)
       IN  /\ self.records = q.self.records
           /\ emits = q.emits
           /\ (pc = "raised") = q.raised

\* ------------------------------------------------------------------------
\* Whole files, malformed records included
\* ------------------------------------------------------------------------

\* Records that break a size or type constraint: total_size above 500,
\* total_size below 14, a $GPRMC record cut by the end of the buffer.
Oversize == PlainRecord(3, MaxRecordSize + 1, MaxRecordSize + 1, T1060)
Undersize == PlainRecord(1, HeaderSize - 1, MaxRecordSize, T1060)
Overrun == [NmeaRecord(T1060, FixNorth) EXCEPT !.avail = HeaderSize + 20]

\* What a file is made of.
FileRecords ==
    { NmeaRecord(T0, FixSouth), NmeaRecord(T1060, FixNorth),
      CanRecord(T60, CAN_0x0258, LeanFrame),
      CanRecord(T1060, CAN_0x0258, LeanFrame),
      CanRecord(T0, CAN_0x023E, FuelFrame),
      CanRecord(T0, CAN_0x0258, ShortLeanFrame),
      PlainRecord(5, HeaderSize, MaxRecordSize, T60),
      BadType, EndOfStream, Oversize, Undersize, Overrun }

\* The files of MaxRecords records; a shorter file is one of these seen up
\* to a record that stops the loop.
Files == [1..MaxRecords -> FileRecords]

\* Headers with no, all, and all but one of the four RECORDLINE tags.
Headers ==
    { NoTags, FullTags,
      [FullTags EXCEPT !.p1_lat = <<>>], [FullTags EXCEPT !.p2_lng = <<>>] }

InitFile ==
    /\ header_finish_line \in Headers
    /\ data \in Files
    /\ native_mode \in BOOLEAN
    /\ self = NewParser
    /\ loc = NewLocals
    /\ pc = "init"
    /\ pos = 0
    /\ calls = 0
    /\ returned = <<>>
    /\ epochs = <<>>
    /\ emits = <<>>

\* parse() on the file `data`, record by record.
SpecFile == InitFile /\ [][Next]_vars

\* ------------------------------------------------------------------------
\* C12 - Malformed record stops iteration
\* ------------------------------------------------------------------------

\* A record with an invalid type, total_size < 14, total_size > 500, a size
\* overrunning the input, or type 0 with size 0.
Malformed(r) ==
    \/ r.rec_type \notin {1, 2, 3, 4, 5}
    \/ r.total_size < 14
    \/ r.total_size > 500
    \/ r.total_size > r.avail
    \/ r.rec_type = 0 /\ r.total_size = 0

\* Position of the first malformed record of a file (Len + 1: none).
RECURSIVE FirstMalformed(_, _)
FirstMalformed(file, i) ==
    IF i > Len(file) \/ Malformed(file[i]) THEN i
    ELSE FirstMalformed(file, i + 1)

\* The file cut before its first malformed record.
TruncatedAtMalformed(file) == SubSeq(file, 1, FirstMalformed(file, 1) - 1)

\* C12: iteration stops at the first malformed record: the outcome of
\* parse() on a file (the samples, and whether it raised) is the outcome on
\* the file truncated at that record, so the samples emitted before it are
\* kept and nothing located after it has any influence.
C12_StopsAtMalformed ==
    pc \in {"done", "raised"} =>
       LET t == parse_file(parse_finish_line(header_finish_line), native_mode,
                           TruncatedAtMalformed(data))
       IN  /\ self.records = t.self.records
           /\ (pc = "raised") = t.raised

\* A finished run of a file with samples before a malformed record that is
\* followed by a lap marker and by a valid $GPRMC.
C12_Witness ==
    /\ pc = "done"
    /\ NumSamples >= 2
    /\ \E m \in 2..Len(data) :
         /\ m = FirstMalformed(data, 1)
         /\ \E j \in (m + 1)..Len(data) :
              data[j].rec_type = 5 \/ ValidGprmcRecord(data[j])

\* ------------------------------------------------------------------------
\* C13 - Missing finish line
\* ------------------------------------------------------------------------

\* The header does not define all four finish-line coordinates.
FinishLineMissing ==
    \E t \in {header_finish_line.p1_lat, header_finish_line.p1_lng,
              header_finish_line.p2_lat, header_finish_line.p2_lng} : t = <<>>

\* C13 as stated: with a finish-line coordinate missing from the header,
\* every sample has lap 1, whatever the record stream and the mode.
C13_MissingFinishLineLapOne ==
    FinishLineMissing => \A i \in 1..NumSamples : Samples[i].lap = 1

\* C13 amended: with a finish-line coordinate missing from the header, in
\* continuous mode every sample has lap 1, type-5 records and trajectory
\* notwithstanding; in per-lap mode the type-5 records still number the
\* samples: each carries one more than the number of markers before it.
C13_MissingFinishLineByMode ==
    FinishLineMissing =>
       \A i \in 1..NumSamples :
          Samples[i].lap = IF native_mode THEN MarkersBefore(emits[i].at) + 1
                                          ELSE 1

\* A continuous run under a header with three of the four tags: a type-5
\* record was processed and the trajectory went from one side of the line
\* the full header defines to the other, with samples on both sides.
C13_Witness ==
    /\ ~native_mode /\ pc = "done"
    /\ FinishLineMissing /\ header_finish_line # NoTags
    /\ NumSamples >= 2
    /\ \E k \in 1..Len(data) : k < emits[NumSamples].at /\ data[k].rec_type = 5
    /\ \E i, j \in 1..NumSamples :
         /\ i < j
         /\ Sign(side_of_line(FinishLineP, Samples[i].latitude,
                               Samples[i].longitude))
              * Sign(side_of_line(FinishLineP, Samples[j].latitude,
                                  Samples[j].longitude)) < 0

\* ------------------------------------------------------------------------
\* C14 - Per-lap numbering
\* ------------------------------------------------------------------------

\* The records of the lap range <<first, last>>.
RangeRecords(range) == range[1]..range[2]

\* Two positions on opposite sides of the finish line of the full header.
OppositeSides(a, b) ==
    Sign(side_of_line(FinishLineP, a.latitude, a.longitude))
       * Sign(side_of_line(FinishLineP, b.latitude, b.longitude)) < 0

\* C14: in per-lap mode the k type-5 records of the stream (the records up
\* to the first one that stops the loop) cut it into
\* k + 1 partitions that contain no marker and together hold every other
\* record once; every sample carries the index of the partition it was
\* emitted from; samples appear in partition order; and a step of the
\* trajectory across the finish line neither changes the lap number nor
\* resets fuel.
C14_PerLapNumbering ==
    native_mode =>
       LET stream == TruncatedAtMalformed(data)
           ranges == lap_ranges(stream)
           k == Cardinality({m \in 1..Len(stream) : stream[m].rec_type = 5})
       IN  /\ Len(ranges) = k + 1
           /\ \A m \in 1..Len(stream) :
                Cardinality({n \in 1..Len(ranges) : m \in RangeRecords(ranges[n])})
                   = IF stream[m].rec_type = 5 THEN 0 ELSE 1
           /\ \A i \in 1..NumSamples :
                \E n \in 1..Len(ranges) :
                   /\ Samples[i].lap = n
                   /\ emits[i].at \in ranges[n][1]..(ranges[n][2] + 1)
                   /\ Samples[i].fuel =
                         FuelDeltaSum(ranges[n][1], emits[i].at)
           /\ \A i \in 1..(NumSamples - 1) :
                /\ emits[i].at <= emits[i + 1].at
                /\ Samples[i].lap <= Samples[i + 1].lap
                /\ (Samples[i].lap = Samples[i + 1].lap) =>
                      Samples[i].fuel <= Samples[i + 1].fuel

\* A per-lap run under the full header: after a type-5 record the
\* trajectory steps across the finish line, and the samples on both sides
\* carry lap 2.
C14_Witness ==
    /\ native_mode /\ parse_finish_line(header_finish_line) = FinishLineP
    /\ \E i \in 1..(NumSamples - 1) :
         /\ OppositeSides(Samples[i], Samples[i + 1])
         /\ Samples[i].lap = 2 /\ Samples[i + 1].lap = 2

\* ------------------------------------------------------------------------
\* C15 - Per-lap fresh state
\* ------------------------------------------------------------------------

\* The samples with their lap field replaced by n.
WithLap(records, n) ==
    [i \in 1..Len(records) |-> [records[i] EXCEPT !.lap = n]]

\* The samples of fresh continuous-mode decoders without finish line, one
\* per lap range from range k on, each run on the records of its range
\* alone, relabelled with the range index and concatenated; a run that
\* raises ends the sequence.
RECURSIVE FreshRuns(_, _, _)
FreshRuns(file, ranges, k) ==
    IF k > Len(ranges) THEN [records |-> <<>>, raised |-> FALSE]
    ELSE LET q == parse_file(<<>>, FALSE,
                             SubSeq(file, ranges[k][1], ranges[k][2]))
             recs == WithLap(q.self.records, k)
         IN  IF q.raised THEN [records |-> recs, raised |-> TRUE]
             ELSE LET rest == FreshRuns(file, ranges, k + 1)
                  IN  [records |-> recs \o rest.records,
                       raised |-> rest.raised]

\* C15: the output of a per-lap run is, partition by partition, the output
\* of a freshly constructed continuous-mode decoder without finish line on
\* the records of the partition alone, with lap replaced by the partition
\* index; with no type-5 record it is the output of continuous mode without
\* finish line on the whole stream.
C15_PerLapFreshState ==
    (native_mode /\ calls = 1 /\ pc \in {"done", "raised"}) =>
       LET f == FreshRuns(data, lap_ranges(data), 1)
       IN  /\ self.records = f.records
           /\ (pc = "raised") = f.raised
           /\ (\A m \in 1..Len(data) : data[m].rec_type # 5) =>
                 self.records = parse_file(<<>>, FALSE, data).self.records

\* A finished per-lap run under the full header whose first partition holds
\* a CAN frame and whose second partition emits a sample.
C15_Witness ==
    /\ native_mode /\ pc = "done"
    /\ header_finish_line = FullTags
    /\ Len(lap_ranges(data)) >= 2
    /\ \E m \in RangeRecords(lap_ranges(data)[1]) : data[m].rec_type = 1
    /\ \E j \in 1..NumSamples : Samples[j].lap = 2

\* ------------------------------------------------------------------------
\* C16 - Lap crossing rule
\* ------------------------------------------------------------------------

\* Coordinates range over -MaxCoord..MaxCoord steps of half a degree.
MaxCoord == 4

HalfDegree == CoordScale \div 2

Coords == { c * HalfDegree : c \in (0 - MaxCoord)..MaxCoord }

\* Finish lines: the line of the full header, a line along a meridian, a
\* diagonal and a line away from the origin.
FinishLines ==
    { FinishLineP,
      <<0 - HalfDegree, HalfDegree, 2 * HalfDegree, HalfDegree>>,
      <<0 - HalfDegree, 0 - HalfDegree, HalfDegree, HalfDegree>>,
      <<2 * HalfDegree, 0 - 2 * HalfDegree, HalfDegree, 2 * HalfDegree>> }

\* A parser with a finish line and a previous position, and the current
\* position of the decoding loop.
InitCrossing ==
    /\ header_finish_line = FullTags
    /\ data = <<>>
    /\ native_mode = FALSE
    /\ \E fl \in FinishLines : \E lat, lng \in Coords :
         self = [NewParser EXCEPT !.finish_line = fl,
                                  !.prev_lat = lat, !.prev_lng = lng]
    /\ \E lat, lng \in Coords :
         loc = [NewLocals EXCEPT !.current_lat = lat, !.current_lon = lng,
                                 !.has_gprmc = TRUE]
    /\ pc = "crossing"
    /\ pos = 0
    /\ calls = 0
    /\ returned = <<>>
    /\ epochs = <<>>
    /\ emits = <<>>

\* FinishLine.crosses_line on the step from the previous to the current
\* position.
CrossesLine ==
    /\ pc = "crossing"
    /\ returned' = <<crosses_line(self.finish_line, self.prev_lat, self.prev_lng,
                                  loc.current_lat, loc.current_lon)>>
    /\ pc' = "crossed"
    /\ UNCHANGED <<header_finish_line, data, native_mode, self, loc, pos,
                   calls, epochs, emits>>

\* _check_lap_crossing on the same step.
CheckLapCrossing ==
    /\ pc = "crossed"
    /\ self' = check_lap_crossing(self, loc.current_lat, loc.current_lon)
    /\ pc' = "checked"
    /\ UNCHANGED <<header_finish_line, data, native_mode, loc, pos, calls,
                   returned, epochs, emits>>

NextCrossing == CrossesLine \/ CheckLapCrossing

SpecCrossing == InitCrossing /\ [][NextCrossing]_vars

\* side(p) for the line P1-P2 = <<p1_lat, p1_lng, p2_lat, p2_lng>>.
Side(fl, lat, lng) ==
    (fl[4] - fl[2]) * (lat - fl[1]) - (fl[3] - fl[1]) * (lng - fl[2])

\* The crossing rule: a strict sign change, segments not parallel, and the
\* intersection parameter t = n / d along the finish line within [0, 1],
\* where P1 + t (P2 - P1) lies on the line through prev and curr.
CrossingRule(fl, lat1, lng1, lat2, lng2) ==
    LET d == (fl[4] - fl[2]) * (lat2 - lat1) - (fl[3] - fl[1]) * (lng2 - lng1)
        n == (lng1 - fl[2]) * (lat2 - lat1) - (lat1 - fl[1]) * (lng2 - lng1)
    IN  /\ \/ Side(fl, lat1, lng1) < 0 /\ Side(fl, lat2, lng2) > 0
           \/ Side(fl, lat1, lng1) > 0 /\ Side(fl, lat2, lng2) < 0
        /\ d # 0
        /\ \/ d > 0 /\ 0 <= n /\ n <= d
           \/ d < 0 /\ d <= n /\ n <= 0

\* The step the state holds: from (prev_lat, prev_lng) to the current
\* position.
StepIs(lat1, lng1, lat2, lng2) ==
    /\ self.prev_lat = lat1 /\ self.prev_lng = lng1
    /\ loc.current_lat = lat2 /\ loc.current_lon = lng2

\* C16: crosses_line answers TRUE exactly when the sides of prev and curr
\* have a strictly negative product, the segments are not parallel and the
\* intersection parameter along the finish line is in [0, 1]; a point on
\* the line never crosses; with P1=(0,0), P2=(0,1) the step (-1,0.5) ->
\* (1,0.5) crosses and the step (-1,2) -> (1,2) does not; the lap counter
\* increments only on a crossing.
C16_CrossingRule ==
    /\ pc = "crossed" =>
         /\ returned[1] = CrossingRule(self.finish_line,
                                       self.prev_lat, self.prev_lng,
                                       loc.current_lat, loc.current_lon)
         /\ (Side(self.finish_line, self.prev_lat, self.prev_lng) = 0
               \/ Side(self.finish_line, loc.current_lat, loc.current_lon) = 0)
              => ~returned[1]
         /\ (self.finish_line = FinishLineP
               /\ StepIs(0 - CoordScale, HalfDegree, CoordScale, HalfDegree)) => returned[1]
         /\ (self.finish_line = FinishLineP
               /\ StepIs(0 - CoordScale, 2 * CoordScale, CoordScale,
                         2 * CoordScale))
              => ~returned[1]
    /\ pc = "checked" =>
         /\ self.current_lap \in {1, 2}
         /\ self.current_lap = 2 => returned[1]
         /\ StepIs(loc.current_lat, loc.current_lon,
                   loc.current_lat, loc.current_lon)

\* The step (-1, 0.5) -> (1, 0.5) over the line P1=(0,0), P2=(0,1) has been
\* judged a crossing.
C16_Witness ==
    /\ pc = "crossed"
    /\ self.finish_line = FinishLineP
    /\ StepIs(0 - CoordScale, HalfDegree, CoordScale, HalfDegree)
    /\ returned = <<TRUE>>

\* ------------------------------------------------------------------------
\* C17 - Calibration injectivity
\* ------------------------------------------------------------------------

\* Raw values range over 0..MaxRaw and the raw values of the docstring
\* examples.
MaxRaw == 40

\* Calibrated values are exact fixed-point integers: a value v of the code
\* is held as v * Den for the denominator Den of its map.
WheelSpeedDen == 160
ThrottleDen == 543744
BrakeDen == 32
AngleDen == 100
AccelerationDen == 1000
TemperatureDen == 8
FuelDen == 100

\* int(raw / 2.56), in RPM.
Calibration_rpm(raw) == (raw * 100) \div 256

\* (raw / 64.0) * 3.6 = raw * 9 / 160, in 1/WheelSpeedDen km/h.
Calibration_wheel_speed_kmh(raw) == raw * 9

\* ((raw / 8.192) * 100.0) / 84.96 = raw * 78125 / 543744, in 1/ThrottleDen
\* percent.
Calibration_throttle(raw) == raw * 78125

\* raw / 32.0, in 1/BrakeDen bar.
Calibration_brake(raw) == raw

\* (raw / 100.0) - 90.0, in 1/AngleDen degree.
Calibration_lean(raw) == raw - 90 * AngleDen

\* (raw / 100.0) - 300.0, in 1/AngleDen degree per second.
Calibration_pitch(raw) == raw - 300 * AngleDen

\* (raw / 1000.0) - 7.0, in 1/AccelerationDen g.
Calibration_acceleration(raw) == raw - 7 * AccelerationDen

\* Calibration.temperature truncated to whole degrees.
Calibration_temperature_Truncated(raw) ==
    (((raw * 5) \div 8) - 30) * TemperatureDen

\* (raw / 1.6) - 30.0 = (raw * 5 - 240) / 8, in 1/TemperatureDen degree.
Calibration_temperature(raw) == raw * 5 - 30 * TemperatureDen

\* raw / 100.0, in 1/FuelDen cc.
Calibration_fuel(raw) == raw

\* The Calibration maps applied to the raw channels of one sample, each
\* channel through the map of its quantity: the values the maps return (a
\* text rendering of these values is not part of this model).
Calibrated(r) ==
    [rpm |-> Calibration_rpm(r.rpm),
     aps |-> Calibration_throttle(r.aps),
     tps |-> Calibration_throttle(r.tps),
     water_temp |-> Calibration_temperature(r.water_temp),
     intake_temp |-> Calibration_temperature(r.intake_temp),
     front_speed |-> Calibration_wheel_speed_kmh(r.front_speed),
     rear_speed |-> Calibration_wheel_speed_kmh(r.rear_speed),
     fuel |-> Calibration_fuel(r.fuel),
     lean |-> Calibration_lean(r.lean),
     lean_signed |-> Calibration_lean(r.lean_signed),
     pitch |-> Calibration_pitch(r.pitch),
     acc_x |-> Calibration_acceleration(r.acc_x),
     acc_y |-> Calibration_acceleration(r.acc_y),
     front_brake |-> Calibration_brake(r.front_brake),
     rear_brake |-> Calibration_brake(r.rear_brake)]

Raws == (0..MaxRaw) \cup {6963, 9000, 25600}

\* A sample whose 16-bit channels all hold `raw` and whose 8-bit
\* temperature channels hold its low byte.
RawSample(raw) ==
    LET st == [InitialState EXCEPT
                 !.rpm = raw, !.aps = raw, !.tps = raw,
                 !.water_temp = raw % 256, !.intake_temp = raw % 256,
                 !.front_speed = raw, !.rear_speed = raw, !.fuel = raw,
                 !.lean = raw, !.lean_signed = raw, !.pitch = raw,
                 !.acc_x = raw, !.acc_y = raw,
                 !.front_brake = raw, !.rear_brake = raw]
    IN  create_record([NewParser EXCEPT !.state = st], 0, NoFix, NoFix, 0)

\* A parser holding two samples.
InitCalibration ==
    /\ header_finish_line = NoTags
    /\ data = <<>>
    /\ native_mode = FALSE
    /\ \E a, b \in Raws :
         self = [NewParser EXCEPT !.records = <<RawSample(a), RawSample(b)>>]
    /\ loc = NewLocals
    /\ pc = "calibrate"
    /\ pos = 0
    /\ calls = 0
    /\ returned = <<>>
    /\ epochs = <<>>
    /\ emits = <<>>

\* The Calibration maps called on every sample of the parser.
Calibrate ==
    /\ pc = "calibrate"
    /\ returned' = <<[i \in 1..Len(self.records) |-> Calibrated(self.records[i])]>>
    /\ pc' = "calibrated"
    /\ UNCHANGED <<header_finish_line, data, native_mode, self, loc, pos,
                   calls, epochs, emits>>

SpecCalibration == InitCalibration /\ [][Calibrate]_vars

\* The calibrated channels.
Columns ==
    { "rpm", "aps", "tps", "water_temp", "intake_temp", "front_speed",
      "rear_speed", "fuel", "lean", "lean_signed", "pitch", "acc_x", "acc_y",
      "front_brake", "rear_brake" }

\* Equal calibrated values of channel c come from equal raw values.
InjectiveOn(c) ==
    returned[1][1][c] = returned[1][2][c]
       => self.records[1][c] = self.records[2][c]

\* The smallest raw value whose rpm is `v`: v * 2.56 rounded up.
RpmToRaw(v) == (v * 256 + 99) \div 100

\* The raw value recovered from the calibrated value v of channel c.
ToRaw(c, v) ==
    CASE c = "rpm" -> RpmToRaw(v)
      [] c \in {"aps", "tps"} -> v \div 78125
      [] c \in {"water_temp", "intake_temp"} -> (v + 30 * TemperatureDen) \div 5
      [] c \in {"front_speed", "rear_speed"} -> v \div 9
      [] c = "fuel" -> v
      [] c \in {"lean", "lean_signed"} -> v + 90 * AngleDen
      [] c = "pitch" -> v + 300 * AngleDen
      [] c \in {"acc_x", "acc_y"} -> v + 7 * AccelerationDen
      [] c \in {"front_brake", "rear_brake"} -> v

\* The quantization of channel c: the largest distance between a raw value
\* and the one recovered from its calibrated value.
Quantization(c) == IF c = "rpm" THEN 2 ELSE 0

\* C17 as stated: every calibration map, rpm included, is injective.
C17_CalibrationInjective ==
    pc = "calibrated" => \A c \in Columns : InjectiveOn(c)

\* C17: every calibration map other than rpm is injective and recovers the
\* raw value exactly; rpm is non-decreasing, maps at most the three raw
\* values v * 2.56 rounded up and the next two to one result v, and so
\* recovers the raw value within 2.
C17_CalibrationInjectiveExceptRpm ==
    pc = "calibrated" =>
       /\ \A c \in Columns : c # "rpm" => InjectiveOn(c)
       /\ \A c \in Columns : \A i \in 1..2 :
            LET raw == self.records[i][c]
                back == ToRaw(c, returned[1][i][c])
            IN  back <= raw /\ raw - back <= Quantization(c)
       /\ self.records[1].rpm <= self.records[2].rpm
            => returned[1][1].rpm <= returned[1][2].rpm

\* Two samples with different raw rpm and the same calibrated rpm, and
\* different values in every other channel.
C17_Witness ==
    /\ pc = "calibrated"
    /\ self.records[1].rpm # self.records[2].rpm
    /\ returned[1][1].rpm = returned[1][2].rpm
    /\ \A c \in Columns : c # "rpm" =>
          returned[1][1][c] # returned[1][2][c]

\* ------------------------------------------------------------------------
\* C18 - Lap-marker re-alignment
\* ------------------------------------------------------------------------

\* Sample i is the first periodic sample emitted after record m.
FirstPeriodicAfter(m, i) ==
    /\ emits[i].kind = "periodic" /\ emits[i].at > m
    /\ \A j \in 1..(i - 1) : ~(emits[j].kind = "periodic" /\ emits[j].at > m)

\* Sample i is the first periodic sample emitted after record m, and no
\* other lap marker lies between record m and the record that emitted it.
NextPeriodicAfter(m, i) ==
    FirstPeriodicAfter(m, i) /\ LastMarkerBefore(emits[i].at) = m

\* C18 as stated: in continuous mode, once a type-5 record has been
\* processed last_emitted_ms is that record's reconstructed epoch and no
\* sample was emitted while it was processed; the next periodic sample
\* after any type-5 record comes from a later record whose epoch is at
\* least 100 ms after that marker's epoch.
C18_MarkerRealignmentAnyMarker ==
    (~native_mode /\ calls = 1) =>
       \A m \in 1..Len(epochs) : data[m].rec_type = 5 =>
          /\ (pc = "loop" /\ pos = m) => loc.last_emitted_ms = epochs[m]
          /\ \A i \in 1..NumSamples : emits[i].at # m
          /\ \A i \in 1..NumSamples : FirstPeriodicAfter(m, i) =>
               /\ Samples[i].time_ms = epochs[emits[i].at]
               /\ Samples[i].time_ms >= epochs[m] + EmitIntervalMs

\* C18 amended: in continuous mode, once a type-5 record has been processed
\* last_emitted_ms is that record's reconstructed epoch and no sample was
\* emitted while it was processed; if no other type-5 record is processed
\* before the next periodic sample, that sample comes from a later record
\* whose epoch is at least 100 ms after the marker's epoch (a later marker
\* overwrites last_emitted_ms, so the bound is relative to the last one).
C18_MarkerRealignment ==
    (~native_mode /\ calls = 1) =>
       \A m \in 1..Len(epochs) : data[m].rec_type = 5 =>
          /\ (pc = "loop" /\ pos = m) => loc.last_emitted_ms = epochs[m]
          /\ \A i \in 1..NumSamples : emits[i].at # m
          /\ \A i \in 1..NumSamples : NextPeriodicAfter(m, i) =>
               /\ Samples[i].time_ms = epochs[emits[i].at]
               /\ Samples[i].time_ms >= epochs[m] + EmitIntervalMs

\* A continuous run in which a lap marker moved the emission clock off the
\* time of the sample before it and a periodic sample followed the marker.
C18_Witness ==
    /\ ~native_mode /\ pc = "done"
    /\ \E m \in 1..Len(data) : \E i \in 1..(NumSamples - 1) :
         /\ data[m].rec_type = 5
         /\ emits[i].at < m
         /\ epochs[m] # Samples[i].time_ms
         /\ NextPeriodicAfter(m, i + 1)

\* ------------------------------------------------------------------------
\* C19 - Epoch reconstruction
\* ------------------------------------------------------------------------

\* Record k repeats the seconds-and-higher fields of record k - 1 with a
\* smaller millis field.
RolloverAt(k) ==
    /\ SecondsAndHigher(data[k].ts_bytes) = SecondsAndHigher(data[k - 1].ts_bytes)
    /\ Millis(data[k].ts_bytes) < Millis(data[k - 1].ts_bytes)

\* The epoch of record k from its timestamp and from the timestamp and the
\* epoch of record k - 1.
EpochRule(k) ==
    LET ts == data[k].ts_bytes
        prev == data[k - 1].ts_bytes
    IN  IF k = PartitionStart(k) THEN get_time_data(ts)
        ELSE IF ts = prev THEN epochs[k - 1]
        ELSE IF SecondsAndHigher(ts) = SecondsAndHigher(prev)
        THEN Millis(ts) + (epochs[k - 1] - Millis(prev))
                + (IF Millis(ts) < Millis(prev) THEN 1000 ELSE 0)
        ELSE get_time_data(ts)

\* C19: the epoch of the first record (of each partition in per-lap mode)
\* is the conversion of its calendar fields plus millis; a later record
\* with the timestamp of its predecessor keeps the epoch, one that differs
\* in millis only gets curr_millis + (prev_epoch_ms - prev_millis), plus
\* 1000 when curr_millis < prev_millis, any other is recomputed from its
\* calendar fields; the stored previous timestamp and epoch are those of
\* the preceding record.
C19_EpochReconstruction ==
    calls = 1 =>
       /\ \A k \in 1..Len(epochs) : epochs[k] # None => epochs[k] = EpochRule(k)
       /\ (pc = "loop" /\ pos >= 1 /\ pos <= Len(epochs) /\ epochs[pos] # None) =>
            /\ loc.prev_ts_bytes = data[pos].ts_bytes
            /\ loc.prev_epoch_ms = epochs[pos]
            /\ loc.current_epoch_ms = epochs[pos]

\* A finished run with a repaired millis rollover followed by a record of
\* another second, whose epoch is recomputed from its calendar fields.
C19_Witness ==
    /\ pc = "done" /\ Len(epochs) = Len(data)
    /\ \E k \in 2..(Len(data) - 1) :
         /\ RolloverAt(k)
         /\ epochs[k] = epochs[k - 1] - Millis(data[k - 1].ts_bytes)
                           + Millis(data[k].ts_bytes) + 1000
         /\ SecondsAndHigher(data[k + 1].ts_bytes)
               # SecondsAndHigher(data[k].ts_bytes)
         /\ epochs[k + 1] = get_time_data(data[k + 1].ts_bytes)

\* ------------------------------------------------------------------------
\* C20 - Reconstructed epoch monotonicity
\* ------------------------------------------------------------------------

\* The seconds field of the timestamps ranges over 0..MaxSecond.
MaxSecond == 1

\* Millis values at both ends of a second.
EpochMillis == {0, 5, 990}

\* A timestamp whose seconds field is 60: datetime() rejects it.
LeapSecond == Ts(0, 60, 0)

EpochTimestamps ==
    { Ts(millis, sec, 0) : millis \in EpochMillis, sec \in 0..MaxSecond }
    \cup {LeapSecond}

\* Records that carry a timestamp and no decoded payload.
EpochRecords ==
    { PlainRecord(3, HeaderSize, MaxRecordSize, ts) : ts \in EpochTimestamps }

\* The data sections of MaxRecords such records.
EpochFiles == [1..MaxRecords -> EpochRecords]

\* A continuous-mode parser on one of these data sections.
InitEpoch ==
    /\ header_finish_line = NoTags
    /\ data \in EpochFiles
    /\ native_mode = FALSE
    /\ self = NewParser
    /\ loc = NewLocals
    /\ pc = "init"
    /\ pos = 0
    /\ calls = 0
    /\ returned = <<>>
    /\ epochs = <<>>
    /\ emits = <<>>

NextEpoch == Parse \/ ParseDataSectionRecord \/ ParseDataSectionEnd

SpecEpoch == InitEpoch /\ [][NextEpoch]_vars

\* The calendar fields of a timestamp as one number.
CalendarOf(ts) == ts[3] * 60 + ts[2]

\* The calendar fields of the processed records never go backward and
\* their millis are in 0..999.
CalendarNeverBackward ==
    /\ \A k \in 2..Len(epochs) :
         CalendarOf(data[k - 1].ts_bytes) <= CalendarOf(data[k].ts_bytes)
    /\ \A k \in 1..Len(epochs) : Millis(data[k].ts_bytes) \in 0..999

\* The epoch of record k is ahead of its calendar fields plus millis: a
\* rollover was repaired within its second.
Repaired(k) == epochs[k] > get_time_data(data[k].ts_bytes)

\* C20 as stated: with calendar fields that never go backward and millis in
\* 0..999 the reconstructed epoch never decreases from record to record,
\* across a repaired rollover and across the following advance of the
\* seconds field included.
C20_EpochMonotone ==
    CalendarNeverBackward =>
       \A k \in 2..Len(epochs) : epochs[k - 1] <= epochs[k]

\* C20 amended: with calendar fields that never go backward and millis in
\* 0..999 the reconstructed epoch never decreases between records of one
\* second, a repaired rollover included, nor across an advance of the
\* seconds field that follows no repaired rollover; after a repaired
\* rollover the record that advances the seconds field gets the epoch of
\* its calendar fields plus millis, which may be lower.
C20_EpochMonotoneUnlessRepaired ==
    CalendarNeverBackward =>
       \A k \in 2..Len(epochs) :
          /\ CalendarOf(data[k].ts_bytes) = CalendarOf(data[k - 1].ts_bytes)
               => epochs[k - 1] <= epochs[k]
          /\ CalendarOf(data[k].ts_bytes) # CalendarOf(data[k - 1].ts_bytes)
               => /\ epochs[k] = get_time_data(data[k].ts_bytes)
                  /\ epochs[k - 1] <= epochs[k] \/ Repaired(k - 1)

\* A finished run whose second record repairs a rollover, raising the
\* epoch, and whose third record advances the seconds field and lowers it.
C20_Witness ==
    /\ pc = "done" /\ Len(epochs) >= 3
    /\ CalendarNeverBackward
    /\ RolloverAt(2)
    /\ epochs[1] < epochs[2]
    /\ CalendarOf(data[3].ts_bytes) = CalendarOf(data[2].ts_bytes) + 1
    /\ epochs[3] < epochs[2]

\* ------------------------------------------------------------------------
\* C21 - Incremental versus full recomputation
\* ------------------------------------------------------------------------

\* ts_bytes_to_epoch_ms of the test script: the calendar fields converted
\* to epoch milliseconds plus the millis field, for one record on its own.
ts_bytes_to_epoch_ms(ts) ==
    IF CalendarOk(ts) THEN ((ts[3] * 60 + ts[2]) * 1000) + ts[1]
    ELSE ValueError

\* First record of the run of consecutive records that share the
\* seconds-and-higher bytes of record k.
RECURSIVE RunStart(_)
RunStart(k) ==
    IF k = 1 \/ SecondsAndHigher(data[k].ts_bytes)
                   # SecondsAndHigher(data[k - 1].ts_bytes)
    THEN k
    ELSE RunStart(k - 1)

\* Number of millis decreases inside the unchanged seconds field up to
\* record k.
DecreasesBefore(k) ==
    Cardinality({j \in (RunStart(k) + 1)..k : RolloverAt(j)})

\* Millis never decreases between consecutive processed records that share
\* the seconds-and-higher bytes.
MillisNeverDecreases ==
    \A k \in 2..Len(epochs) : ~RolloverAt(k)

\* C21: the incremental reconstruction gives every record the value of the
\* full recomputation plus 1000 ms for each millis decrease that precedes
\* it inside its unchanged seconds field; so on a sequence without such a
\* decrease the two agree on every record.
C21_IncrementalEqualsFull ==
    /\ \A k \in 1..Len(epochs) :
         epochs[k] = ts_bytes_to_epoch_ms(data[k].ts_bytes)
                        + 1000 * DecreasesBefore(k)
    /\ MillisNeverDecreases =>
         \A k \in 1..Len(epochs) :
            epochs[k] = ts_bytes_to_epoch_ms(data[k].ts_bytes)

\* A finished run in which the incremental branch gave one record the
\* value of the full recomputation and, after a millis decrease, gave
\* another one 1000 ms more.
C21_Witness ==
    /\ pc = "done" /\ Len(epochs) = Len(data)
    /\ \E k \in 2..Len(data) :
         /\ SecondsAndHigher(data[k].ts_bytes)
               = SecondsAndHigher(data[k - 1].ts_bytes)
         /\ Millis(data[k].ts_bytes) > Millis(data[k - 1].ts_bytes)
         /\ epochs[k] = ts_bytes_to_epoch_ms(data[k].ts_bytes)
    /\ \E k \in 2..Len(data) :
         epochs[k] = ts_bytes_to_epoch_ms(data[k].ts_bytes) + 1000

\* ------------------------------------------------------------------------
\* C22 - Update before emission
\* ------------------------------------------------------------------------

\* The samples appended by the step, final-flush samples aside.
NewSamples ==
    { i \in (Len(self.records) + 1)..Len(self'.records) :
         emits'[i].kind # "final" }

\* A loop iteration on the record r = data[pos + 1].
RecordStep ==
    /\ pc = "loop" /\ pos' = pos + 1 /\ pos' <= Len(data')

\* Sample rec carries the channel values of st and the GPS values of l.
CarriesState(rec, st, l) ==
    /\ \A f \in DOMAIN InitialState : rec[f] = st[f]
    /\ rec.latitude = l.current_lat
    /\ rec.longitude = l.current_lon
    /\ rec.gps_speed_knots = l.current_speed_knots

\* C22: every sample appended while record r is processed carries the
\* channel and GPS values as they stand once r has been applied: the
\* position of r when r is an accepted $GPRMC that yields one, the lean of
\* r when
\* r is a complete 0x0258 frame; and the samples appended before are left
\* as they were, so nothing of a later record reaches them.
C22_UpdateBeforeEmission ==
    [][RecordStep =>
         LET r == data'[pos']
         IN  /\ \A i \in NewSamples :
                  /\ emits'[i].at = pos'
                  /\ CarriesState(self'.records[i], self'.state, loc')
                  /\ (r.rec_type = 2 /\ PayloadLen(r) > 6
                        /\ AcceptsGprmc(r.sentence)
                        /\ parse_gprmc_sentence(r.sentence).ok) =>
                       /\ self'.records[i].latitude
                             = parse_gprmc_sentence(r.sentence).latitude
                       /\ self'.records[i].longitude
                             = parse_gprmc_sentence(r.sentence).longitude
                       /\ self'.records[i].gps_speed_knots
                             = parse_gprmc_sentence(r.sentence).speed_knots
                  /\ (r.rec_type = 1 /\ PayloadLen(r) >= 5
                        /\ r.can_id = CAN_0x0258 /\ Len(r.can_data) >= 8) =>
                       self'.records[i].lean
                          = DecodeLean(r.can_data[1], r.can_data[2],
                                       r.can_data[3], r.can_data[4]).lean
             /\ Len(self'.records) >= Len(self.records)
             /\ SubSeq(self'.records, 1, Len(self.records)) = self.records]_vars

\* A run in which a 0x0258 frame that changed the lean emitted a periodic
\* sample, which carries the new lean.
C22_Witness ==
    \E j \in 2..NumSamples :
       /\ emits[j].kind = "periodic" /\ emits[j].at <= Len(data)
       /\ data[emits[j].at].rec_type = 1
       /\ data[emits[j].at].can_id = CAN_0x0258
       /\ Samples[j].lean # Samples[j - 1].lean

\* ------------------------------------------------------------------------
\* Data sections of GPS sentences, void ones included
\* ------------------------------------------------------------------------

\* An active fix at (-1.0, -0.5), south of the line and west of P1.
FixSouthWest == Gprmc("A", 1, 0, "S", 0, 2, "W", 30, 79, 79)

\* An active fix at (1.0, 0.5) whose speed field is not a number.
GarbledSpeed == [FixNorth EXCEPT !.garbled = {"knots"}]

GpsRecords ==
    { NmeaRecord(T0, VoidFix), NmeaRecord(T1060, VoidFix),
      NmeaRecord(T0, FixSouth), NmeaRecord(T1060, FixSouth),
      NmeaRecord(T1060, FixNorth), NmeaRecord(T1060, FixSouthWest),
      NmeaRecord(T60, BadChecksum), NmeaRecord(T1060, GarbledSpeed),
      CanRecord(T0, CAN_0x023E, FuelFrame),
      PlainRecord(5, HeaderSize, MaxRecordSize, T60) }

GpsFiles == [1..MaxRecords -> GpsRecords]

\* A parser, with or without finish line, on one of these data sections.
InitGps ==
    /\ header_finish_line \in {NoTags, FullTags}
    /\ data \in GpsFiles
    /\ native_mode \in BOOLEAN
    /\ self = NewParser
    /\ loc = NewLocals
    /\ pc = "init"
    /\ pos = 0
    /\ calls = 0
    /\ returned = <<>>
    /\ epochs = <<>>
    /\ emits = <<>>

SpecGps == InitGps /\ [][Next]_vars

\* ------------------------------------------------------------------------
\* C23 - Void GPRMC
\* ------------------------------------------------------------------------

\* Record m is a checksum-valid $GPRMC with status A.
ActiveGprmc(m) ==
    ValidGprmcRecord(data[m]) /\ data[m].sentence.status = "A"

\* The status-A $GPRMC records among records from..k.
ActiveIn(from, k) ==
    { m \in from..k : m <= Len(data) /\ ActiveGprmc(m) }

\* Those of them whose position and speed fields convert.
ConvertedIn(from, k) ==
    { m \in ActiveIn(from, k) : ~FloatRaises(data[m].sentence) }

\* Latitude, longitude and speed of the last of the records S, the no-fix
\* sentinel when there is none.
PositionOf(S) ==
    IF S = {}
    THEN [latitude |-> NoFix, longitude |-> NoFix, speed_knots |-> 0]
    ELSE LET g == data[Max(S)].sentence
             lat == g.lat_dd * CoordScale + g.lat_quarters
             lon == g.lon_ddd * CoordScale + g.lon_quarters
         IN  [latitude |-> IF g.ns = "S" THEN 0 - lat ELSE lat,
              longitude |-> IF g.ew = "W" THEN 0 - lon ELSE lon,
              speed_knots |-> IF "knots" \in g.empty THEN 0 ELSE g.knots]

\* Once records from..k are processed: the position of the most recent
\* status-A $GPRMC.
PositionAfter(from, k) == PositionOf(ActiveIn(from, k))

\* The position of the most recent status-A $GPRMC that converts.
ConvertedPositionAfter(from, k) == PositionOf(ConvertedIn(from, k))

\* Sample i carries the position and speed p.
SampleAt(i, p) ==
    /\ Samples[i].latitude = p.latitude
    /\ Samples[i].longitude = p.longitude
    /\ Samples[i].gps_speed_knots = p.speed_knots

\* C23 as stated: every sample emitted before the first status-A $GPRMC of
\* the stream carries the no-fix sentinel, every later one the position of
\* the most recent status-A $GPRMC, in either mode.
C23_VoidGprmc ==
    \A i \in 1..NumSamples : SampleAt(i, PositionAfter(1, emits[i].at))

\* C23 amended: a checksum-valid $GPRMC whose status is not A, or whose
\* position or speed field does not convert, leaves latitude, longitude and
\* speed as they are and opens the gate; a sample carries the position of
\* the most recent status-A $GPRMC that converts and the no-fix sentinel
\* before the first one, counted from the start of the stream in continuous
\* mode and from the start of the partition in per-lap mode.
C23_VoidGprmcByPartition ==
    /\ \A i \in 1..NumSamples :
         SampleAt(i, ConvertedPositionAfter(PartitionStart(emits[i].at),
                                            emits[i].at))
    /\ (pc = "loop" /\ pos >= 1 /\ data[pos].rec_type # 5) =>
         LET p == ConvertedPositionAfter(PartitionStart(pos), pos)
         IN  /\ loc.current_lat = p.latitude
             /\ loc.current_lon = p.longitude
             /\ loc.current_speed_knots = p.speed_knots
             /\ (ValidGprmcRecord(data[pos])
                   /\ ~parse_gprmc_sentence(data[pos].sentence).ok)
                  => loc.has_gprmc

\* A finished continuous run whose gate a void $GPRMC opened: the first
\* sample carries the no-fix sentinel, a later one the position of a
\* status-A $GPRMC.
C23_Witness ==
    /\ ~native_mode /\ pc = "done"
    /\ NumSamples >= 2
    /\ emits[1].at <= Len(data)
    /\ ValidGprmcRecord(data[emits[1].at])
    /\ data[emits[1].at].sentence.status # "A"
    /\ Samples[1].latitude = NoFix /\ Samples[1].longitude = NoFix
    /\ \E i \in 2..NumSamples : Samples[i].latitude # NoFix

\* ------------------------------------------------------------------------
\* Data sections of CAN frames of every identifier
\* ------------------------------------------------------------------------

\* 0x0209: rpm 258, gear 3.
GearThird == <<1, 2, 0, 0, 3>>
\* 0x0209: rpm 772, low three bits of byte 4 all set.
GearInvalid == <<3, 4, 0, 0, 15>>
\* 0x0209 cut after its rpm bytes.
ShortGearFrame == <<5, 6>>
\* 0x0215: tps 5, aps 6, launch, tcs, scs and lif set.
ThrottleFrame == <<0, 5, 0, 6, 0, 0, 32, 56>>
\* 0x0250: acc_x 7, acc_y 8.
AccelFrame == <<0, 7, 0, 8>>
\* 0x0260: front_brake 9, rear_brake 11.
BrakeFrame == <<0, 9, 0, 11>>
\* 0x0264: front_speed 12, rear_speed 13.
WheelFrame == <<0, 12, 0, 13>>
\* 0x0268: bit 0 of byte 4 set, bit 1 clear.
AbsFrame == <<0, 0, 0, 0, 1>>
\* An identifier outside the dispatch table.
CAN_0x0300 == 768

CanRecords ==
    { NmeaRecord(T0, FixSouth),
      CanRecord(T0, CAN_0x0209, GearThird),
      CanRecord(T1060, CAN_0x0209, GearInvalid),
      CanRecord(T0, CAN_0x0209, ShortGearFrame),
      CanRecord(T0, CAN_0x0215, ThrottleFrame),
      CanRecord(T0, CAN_0x023E, FuelFrame),
      CanRecord(T0, CAN_0x0250, AccelFrame),
      CanRecord(T1060, CAN_0x0258, LeanFrame),
      CanRecord(T0, CAN_0x0260, BrakeFrame),
      CanRecord(T0, CAN_0x0264, WheelFrame),
      CanRecord(T1060, CAN_0x0268, AbsFrame),
      CanRecord(T0, CAN_0x0300, GearThird),
      PlainRecord(3, HeaderSize, MaxRecordSize, T60),
      PlainRecord(4, HeaderSize, MaxRecordSize, T60),
      PlainRecord(5, HeaderSize, MaxRecordSize, T60),
      NmeaRecord(T1060, FixNorth) }

\* The data sections of n records of R in timestamp order.
RECURSIVE OrderedFilesOf(_, _)
OrderedFilesOf(R, n) ==
    IF n <= 0 THEN {<<>>}
    ELSE UNION { { Append(f, r) :
                     r \in { x \in R :
                               \/ n = 1
                               \/ ts_bytes_to_epoch_ms(x.ts_bytes) >=
                                  ts_bytes_to_epoch_ms(f[n - 1].ts_bytes) } } :
                 f \in OrderedFilesOf(R, n - 1) }

CanFiles == OrderedFilesOf(CanRecords, MaxRecords)

\* A parser with a finish line on one of these data sections.
InitCan ==
    /\ header_finish_line = FullTags
    /\ data \in CanFiles
    /\ native_mode \in BOOLEAN
    /\ self = NewParser
    /\ loc = NewLocals
    /\ pc = "init"
    /\ pos = 0
    /\ calls = 0
    /\ returned = <<>>
    /\ epochs = <<>>
    /\ emits = <<>>

SpecCan == InitCan /\ [][Next]_vars

\* ------------------------------------------------------------------------
\* C24 - Gear 7 is never stored
\* ------------------------------------------------------------------------

\* The step processes a 0x0209 frame of at least 5 data bytes whose byte 4
\* has its low three bits set.
GearSevenStep ==
    /\ RecordStep
    /\ data[pos'].rec_type = 1
    /\ data[pos'].can_id = CAN_0x0209
    /\ Len(data[pos'].can_data) >= 5
    /\ Byte(data[pos'].can_data, 4) % 8 = 7

\* C24: a 0x0209 frame with (b4 & 0x07) = 7 leaves the stored gear at its
\* previous value and sets rpm from b0,b1; every emitted sample has its gear
\* in 0..6.
C24_GearSevenNeverStored ==
    /\ [][GearSevenStep =>
            /\ self'.state.gear = self.state.gear
            /\ self'.state.rpm = U16BE(data[pos'].can_data, 0)]_vars
    /\ [](\A i \in 1..NumSamples : Samples[i].gear \in 0..6)

\* A sample emitted on a gear-7 frame that follows a gear-3 frame: it keeps
\* gear 3 and has the rpm of the gear-7 frame.
C24_Witness ==
    \E i \in 1..NumSamples :
       /\ emits[i].at <= Len(data) /\ emits[i].at >= 2
       /\ data[emits[i].at] = CanRecord(T1060, CAN_0x0209, GearInvalid)
       /\ data[emits[i].at - 1] = CanRecord(T0, CAN_0x0209, GearThird)
       /\ Samples[i].gear = 3
       /\ Samples[i].rpm = U16BE(GearInvalid, 0)

\* ------------------------------------------------------------------------
\* C25 - Lean decoding
\* ------------------------------------------------------------------------

MaxLeanNibble == 8

\* Data bytes 0..3 of the 0x0258 frames: every b0, the low nibbles of b1 up
\* to the bound, four low nibbles of b2, four high nibbles of b3, and bytes
\* whose unused nibble is set.
LeanFrames ==
    { <<b0, b1, b2, b3, 0, 0, 117, 48>> :
        b0 \in 0..255,
        b1 \in (0..MaxLeanNibble) \cup {243},
        b2 \in {0, 3, 7, 15, 243},
        b3 \in {0, 128, 144, 159, 240} }

\* A parser about to process one 0x0258 frame.
InitLean ==
    /\ header_finish_line = NoTags
    /\ \E f \in LeanFrames : data = <<CanRecord(T0, CAN_0x0258, f)>>
    /\ native_mode = FALSE
    /\ self = NewParser
    /\ loc = NewLocals
    /\ pc = "frame"
    /\ pos = 0
    /\ calls = 0
    /\ returned = <<>>
    /\ epochs = <<>>
    /\ emits = <<>>

\* CAN_HANDLERS[0x0258](can_data, self._state)
HandleLeanFrame ==
    /\ pc = "frame"
    /\ LET res == DispatchCan(data[1].can_id, data[1].can_data, self.state,
                              self.fuel_accumulator)
       IN  self' = [self EXCEPT !.state = res.state,
                                !.fuel_accumulator = res.fuel]
    /\ pc' = "handled"
    /\ pos' = 1
    /\ UNCHANGED <<header_finish_line, data, native_mode, loc, calls,
                   returned, epochs, emits>>

SpecLean == InitLean /\ [][HandleLeanFrame]_vars

\* parse_can_0x0258_native of the test script: the lean value.
parse_can_0x0258_native(d) ==
    LET b0 == Byte(d, 0)
        b1 == Byte(d, 1)
        b2 == Byte(d, 2)
        b3 == Byte(d, 3)
        val1_part == b0 * 16 + (b2 % 16)
        val1 == val1_part * 256
        val2 == (b1 % 16) * 16 + (b3 \div 16)
        sum_val == Mask16(val1 + val2)
        deviation == IF sum_val < 9000 THEN 9000 - sum_val
                     ELSE Mask16(sum_val - 9000)
        lean == IF deviation <= 499 THEN 9000
                ELSE 9000 + (deviation - (deviation % 100))
    IN  Mask16(lean)

\* The 16-bit sum of the interleaved nibbles of data bytes 0..3.
LeanSum(d) ==
    Mask16(((Byte(d, 0) * 16 + (Byte(d, 2) % 16)) * 256)
           + ((Byte(d, 1) % 16) * 16 + (Byte(d, 3) \div 16)))

\* |sum - 9000|
LeanDeviation(d) ==
    IF LeanSum(d) >= 9000 THEN LeanSum(d) - 9000 ELSE 9000 - LeanSum(d)

\* C25: after a 0x0258 frame, lean = lean_signed = 9000 if the deviation of
\* the sum from 9000 is at most 499; otherwise, with dev_trunc the deviation
\* less its remainder modulo 100, lean = (9000 + dev_trunc) & 0xFFFF and
\* lean_signed = 9000 - dev_trunc below 9000, 9000 + dev_trunc otherwise;
\* lean equals the value of the test script's reference formula.
C25_LeanDecoding ==
    pc = "handled" =>
      LET d == data[1].can_data
          dev_trunc == LeanDeviation(d) - (LeanDeviation(d) % 100)
      IN  /\ LeanDeviation(d) <= 499 =>
               self.state.lean = 9000 /\ self.state.lean_signed = 9000
          /\ LeanDeviation(d) > 499 =>
               /\ self.state.lean = Mask16(9000 + dev_trunc)
               /\ self.state.lean_signed =
                    IF LeanSum(d) < 9000 THEN 9000 - dev_trunc
                    ELSE 9000 + dev_trunc
          /\ self.state.lean = parse_can_0x0258_native(d)

\* The frame of sum 5000 has been decoded to lean 13000, lean_signed 5000.
C25_Witness ==
    /\ pc = "handled"
    /\ LeanSum(data[1].can_data) = 5000
    /\ self.state.lean = 13000
    /\ self.state.lean_signed = 5000

\* ------------------------------------------------------------------------
\* C26 - Fuel accumulation
\* ------------------------------------------------------------------------

MaxFuelRecords == 6

T2060 == Ts(60, 2, 0)

\* 0x023E frames of delta 5, 20, 30 and 65535 (FuelFrame has delta 10).
FuelFrame5 == <<176, 80, 0, 5>>
FuelFrame20 == <<176, 80, 0, 20>>
FuelFrame30 == <<176, 80, 0, 30>>
FuelFrameFull == <<176, 80, 255, 255>>

FuelRecords ==
    { NmeaRecord(T2060, FixNorth),
      CanRecord(T0, CAN_0x023E, FuelFrame),
      CanRecord(T0, CAN_0x023E, FuelFrame20),
      CanRecord(T1060, CAN_0x023E, FuelFrame30),
      CanRecord(T2060, CAN_0x023E, FuelFrame5),
      CanRecord(T0, CAN_0x023E, FuelFrameFull),
      PlainRecord(5, HeaderSize, MaxRecordSize, T60) }

\* Data sections of n records in timestamp order that open with a fix south
\* of the line.
RECURSIVE FuelFilesOf(_)
FuelFilesOf(n) ==
    IF n <= 1 THEN {<<NmeaRecord(T0, FixSouth)>>}
    ELSE UNION { { Append(f, r) :
                     r \in { x \in FuelRecords :
                               ts_bytes_to_epoch_ms(x.ts_bytes) >=
                               ts_bytes_to_epoch_ms(f[n - 1].ts_bytes) } } :
                 f \in FuelFilesOf(n - 1) }

FuelFiles == FuelFilesOf(MaxFuelRecords)

\* A parser with a finish line on one of these data sections.
InitFuel ==
    /\ header_finish_line = FullTags
    /\ data \in FuelFiles
    /\ native_mode \in BOOLEAN
    /\ self = NewParser
    /\ loc = NewLocals
    /\ pc = "init"
    /\ pos = 0
    /\ calls = 0
    /\ returned = <<>>
    /\ epochs = <<>>
    /\ emits = <<>>

SpecFuel == InitFuel /\ [][Next]_vars

\* The last sample up to i at which the lap number increments, 0 if none.
LastIncrement(i) == Max({j \in 1..i : LapIncrementsAt(j)} \cup {0})

\* The first record after the last lap boundary before sample i: the record
\* after the emission of the last crossing in continuous mode, the start of
\* the partition in per-lap mode.
FuelStart(i) ==
    IF native_mode THEN PartitionStart(emits[i].at)
    ELSE IF LastIncrement(i) = 0 THEN 1
    ELSE emits[LastIncrement(i)].at + 1

\* C26: the fuel of a sample is the exact sum of the 16-bit deltas of the
\* 0x023E frames consumed since the last lap boundary (since the start for
\* lap 1), never reduced modulo 2^16; the sample of a crossing has fuel 0.
C26_FuelAccumulation ==
    /\ \A i \in 1..NumSamples :
         Samples[i].fuel = FuelDeltaSum(FuelStart(i), emits[i].at)
    /\ self.state.fuel = self.fuel_accumulator

\* Deltas 10, 20, 30, a crossing, delta 5: a sample of lap 1 has fuel 60,
\* the first sample of lap 2 has fuel 0 and the last one fuel 5.
C26_Witness ==
    /\ pc = "done" /\ ~native_mode
    /\ \E i, j, k \in 1..NumSamples :
          /\ i < j /\ j < k
          /\ Samples[i].lap = 1 /\ Samples[i].fuel = 60
          /\ LapIncrementsAt(j) /\ Samples[j].fuel = 0
          /\ Samples[k].lap = 2 /\ Samples[k].fuel = 5

\* ------------------------------------------------------------------------
\* C27 - Channel frame condition
\* ------------------------------------------------------------------------

\* The channels written by the handler of each identifier.
Owned(can_id) ==
    CASE can_id = CAN_0x0209 -> {"rpm", "gear"}
      [] can_id = CAN_0x0215 -> {"tps", "aps", "launch", "tcs", "scs", "lif"}
      [] can_id = CAN_0x023E -> {"water_temp", "intake_temp", "fuel"}
      [] can_id = CAN_0x0250 -> {"acc_x", "acc_y"}
      [] can_id = CAN_0x0258 -> {"lean", "lean_signed", "pitch"}
      [] can_id = CAN_0x0260 -> {"front_brake", "rear_brake"}
      [] can_id = CAN_0x0264 -> {"front_speed", "rear_speed"}
      [] can_id = CAN_0x0268 -> {"r_abs", "f_abs"}
      [] OTHER -> {}

\* The step processes the record data[pos + 1], to its end or to an
\* IndexError of its handler.
PayloadStep ==
    /\ pc = "loop" /\ pos < Len(data)
    /\ pos' = pos + 1 \/ pc' = "raised"

\* The channels whose value the step changes.
Changed == { f \in DOMAIN InitialState : self'.state[f] # self.state[f] }

\* The channels the record r may write.
OwnedBy(r) == IF r.rec_type = 1 THEN Owned(r.can_id) ELSE {}

\* A complete 0x0268 frame sets r_abs from bit 0 and f_abs from bit 1 of b4.
AbsBits(r) ==
    (r.rec_type = 1 /\ r.can_id = CAN_0x0268 /\ Len(r.can_data) >= 5) =>
       /\ self'.state.r_abs = (Bit(Byte(r.can_data, 4), 0) = 1)
       /\ self'.state.f_abs = (Bit(Byte(r.can_data, 4), 1) = 1)

\* C27 as stated: a CAN frame changes only the channels its identifier owns,
\* and a CAN frame of another identifier or a record of type 2, 3, 4 or 5
\* changes no channel, in either mode.
C27_ChannelFrame ==
    [][PayloadStep =>
          /\ Changed \subseteq OwnedBy(data[pos + 1])
          /\ AbsBits(data[pos + 1])]_vars

\* The step's emission detected a finish-line crossing.
CrossingStep == ~native_mode /\ self'.current_lap = self.current_lap + 1

\* C27 amended: the record changes only the channels its identifier owns,
\* except that the emission of a finish-line crossing resets fuel to 0
\* whatever the record, and that in per-lap mode a type-5 record returns
\* every channel to its initial value.
C27_ChannelFrameByMode ==
    [][PayloadStep =>
          LET r == data[pos + 1]
          IN  IF native_mode /\ r.rec_type = 5
              THEN self'.state = InitialState
              ELSE /\ Changed \subseteq
                        (OwnedBy(r) \cup (IF CrossingStep THEN {"fuel"} ELSE {}))
                   /\ CrossingStep => self'.state.fuel = 0
                   /\ AbsBits(r)]_vars

\* A 0x0268 frame with b4 = 1 has just been processed after a 0x0209 frame:
\* r_abs is set, f_abs is not, rpm and gear are those of the 0x0209 frame.
C27_Witness ==
    /\ pc = "loop" /\ pos >= 2
    /\ data[pos] = CanRecord(T1060, CAN_0x0268, AbsFrame)
    /\ data[pos - 1] = CanRecord(T0, CAN_0x0209, GearThird)
    /\ self.state.r_abs /\ ~self.state.f_abs
    /\ self.state.rpm = U16BE(GearThird, 0) /\ self.state.gear = 3

\* ------------------------------------------------------------------------
\* The read position: header walk and record loops over the bytes of a file
\* ------------------------------------------------------------------------

MaxWalkRecords == 2

HeaderStart == 52
HeaderScanLimit == 500
MinEntrySize == 5
MaxEntrySize == 200

Min(a, b) == IF a < b THEN a ELSE b

\* A header entry: its 32-bit size and the byte that holds the length of its
\* name.
Entry(entry_size, name_len) ==
    [entry_size |-> entry_size, name_len |-> name_len]

\* What a file holds from one offset on, read either way. A header entry
\* read as a record header has its size in the type and the size fields
\* (the low and the high 16 bits); a record header read as a header entry
\* has rec_type + 65536 * total_size as its size and the low byte of the
\* milliseconds as its name length. `bytes` is the room the chunk takes: the
\* size, when the size is one the walk or the loop steps over, and the bytes
\* read otherwise.
EntryChunk(e) ==
    [entry |-> e,
     record |-> PlainRecord(e.entry_size % 65536, e.entry_size \div 65536,
                            0, T0),
     bytes |-> IF e.entry_size \in MinEntrySize..MaxEntrySize
               THEN e.entry_size ELSE MinEntrySize]

RecordChunk(r) ==
    [entry |-> Entry(r.rec_type + 65536 * r.total_size,
                     Millis(r.ts_bytes) % 256),
     record |-> r,
     bytes |-> IF r.total_size \in HeaderSize..MaxRecordSize
               THEN r.total_size ELSE HeaderSize]

\* The chunks cs laid one after the other from offset off: the chunk that
\* starts at each offset.
RECURSIVE Layout(_, _)
Layout(cs, off) ==
    IF cs = <<>> THEN [o \in {} |-> 0]
    ELSE (off :> Head(cs)) @@ Layout(Tail(cs), off + Head(cs).bytes)

\* The offset after the chunks cs laid from offset off.
RECURSIVE EndOf(_, _)
EndOf(cs, off) ==
    IF cs = <<>> THEN off ELSE EndOf(Tail(cs), off + Head(cs).bytes)

\* The chunks of a file with these header entries and these records.
ChunksOf(entries, records) ==
    [i \in 1..Len(entries) |-> EntryChunk(entries[i])]
      \o [j \in 1..Len(records) |-> RecordChunk(records[j])]

\* The file of `size` bytes with these header entries and these records
\* after the 52 bytes of the fixed header.
FileOf(entries, records, size) ==
    [size |-> size, chunks |-> Layout(ChunksOf(entries, records), HeaderStart)]

\* The whole file, and the file cut k bytes after the start of a chunk.
Cuts(entries, records, ks) ==
    LET cs == ChunksOf(entries, records)
        whole == EndOf(cs, HeaderStart)
        sizes == {whole} \cup
                 { off + k : off \in DOMAIN Layout(cs, HeaderStart), k \in ks }
    IN  { FileOf(entries, records, size) :
            size \in { n \in sizes : n <= whole } }

\* Headers: none, well-formed entries, entries past the scan limit, and an
\* entry on either side of each test of the walk.
WalkHeaders ==
    { <<>>,
      <<Entry(9, 4)>>,
      <<Entry(9, 4), Entry(40, 35)>>,
      <<Entry(200, 1), Entry(200, 1), Entry(200, 1)>>,
      <<Entry(9, 4), Entry(4, 1)>>,
      <<Entry(201, 1)>>,
      <<Entry(9, 0)>>,
      <<Entry(40, 36)>> }

\* A record whose seconds field is 60.
BadSecond == PlainRecord(3, HeaderSize, MaxRecordSize, LeapSecond)

\* Records the loops step over.
WalkRecords ==
    { NmeaRecord(T0, FixSouth),
      NmeaRecord(T1060, FixNorth),
      CanRecord(T60, CAN_0x023E, FuelFrame),
      CanRecord(T1060, CAN_0x0209, ShortGearFrame),
      PlainRecord(5, HeaderSize, MaxRecordSize, T60),
      BadSecond }

\* Record headers the loops stop at.
WalkTerminators == {EndOfStream, BadType, Undersize, Oversize}

RECURSIVE SeqsUpTo(_, _)
SeqsUpTo(S, n) ==
    IF n = 0 THEN {<<>>}
    ELSE LET shorter == SeqsUpTo(S, n - 1)
         IN  shorter \cup { Append(q, x) : q \in { t \in shorter : Len(t) = n - 1 },
                                            x \in S }

\* A fix, a lap marker and a second fix.
TwoLaps ==
    <<NmeaRecord(T0, FixSouth), PlainRecord(5, HeaderSize, MaxRecordSize, T60),
      NmeaRecord(T1060, FixNorth)>>

\* The files: every header before two laps of records, whole or cut right
\* at a chunk, in its size field, in its record header or behind it; and
\* after one header entry every sequence of records, ended or not by a
\* record header that stops the loops.
WalkFiles ==
    UNION { Cuts(h, TwoLaps, {0, 4, 13, 14}) : h \in WalkHeaders }
      \cup
    UNION { UNION { Cuts(<<Entry(9, 4)>>, q \o t, {}) :
                      t \in {<<>>} \cup { <<x>> : x \in WalkTerminators } } :
            q \in SeqsUpTo(WalkRecords, MaxWalkRecords) }

\* The locals of the loops, and those of the drivers: the data start, the
\* offsets of the lap markers, the index of the lap range and its end.
WalkLocals ==
    NewLocals @@ [data_start |-> None, boundaries |-> <<>>, range |-> 0,
                  end |-> None]

\* The locals as _parse_lap_range sets them at its head.
FreshLocals(l) ==
    [f \in DOMAIN l |-> IF f \in DOMAIN NewLocals THEN NewLocals[f] ELSE l[f]]

\* A parser on a file whose header holds no finish line, nothing read yet.
InitWalk ==
    /\ header_finish_line = NoTags
    /\ data = [size |-> 0, chunks |-> Layout(<<>>, HeaderStart)]
    /\ native_mode \in BOOLEAN
    /\ self = NewParser
    /\ loc = WalkLocals
    /\ pc = "init"
    /\ pos = 0
    /\ calls = 0
    /\ returned = <<>>
    /\ epochs = <<>>
    /\ emits = <<>>

\* parse() up to the header walk: the file is read, one of the files, and
\* the finish line is looked up in its header.
ReadFile ==
    /\ pc = "init"
    /\ data' \in WalkFiles
    /\ self' = [self EXCEPT
                  !.finish_line = parse_finish_line(header_finish_line)]
    /\ calls' = calls + 1
    /\ pc' = "find"
    /\ pos' = HeaderStart
    /\ UNCHANGED <<header_finish_line, native_mode, loc, returned, epochs,
                   emits>>

\* _find_data_start returns off. In continuous mode the record loop
\* follows. In per-lap mode _parse_perlap keeps the offset and
\* _scan_lap_boundaries walks the header again, and scans from where its
\* walk ends.
FoundDataStart ==
    IF native_mode /\ pc = "find"
    THEN /\ loc' = [loc EXCEPT !.data_start = pos, !.end = data.size]
         /\ pc' = "refind"
         /\ pos' = HeaderStart
    ELSE /\ loc' = [loc EXCEPT !.data_start = pos, !.end = data.size]
         /\ pc' = IF native_mode THEN "scan" ELSE "loop"
         /\ pos' = pos

\* _find_data_start: one iteration of the header walk; data[off + 4] raises
\* IndexError when the file ends with the size field.
FindDataStartStep ==
    /\ pc \in {"find", "refind"}
    /\ IF ~(pos < Min(data.size, HeaderScanLimit)) \/ pos + 4 > data.size
       THEN FoundDataStart
       ELSE LET e == data.chunks[pos].entry
            IN  IF e.entry_size < MinEntrySize \/ e.entry_size > MaxEntrySize
                THEN FoundDataStart
                ELSE IF pos + 4 >= data.size
                THEN pc' = "raised" /\ UNCHANGED <<loc, pos>>
                ELSE IF e.name_len < 1 \/ e.name_len > e.entry_size - 5
                THEN FoundDataStart
                ELSE pc' = pc /\ pos' = pos + e.entry_size /\ UNCHANGED loc
    /\ UNCHANGED <<header_finish_line, data, native_mode, self, calls,
                   returned, epochs, emits>>

\* The record header read at pos when the loop runs up to `end`; no header
\* is read when fewer than 14 bytes are left.
HeaderAt(end) ==
    IF pos \in DOMAIN data.chunks
    THEN [data.chunks[pos].record EXCEPT !.avail = end - pos]
    ELSE PlainRecord(0, 0, end - pos, T0)

\* The lap range that follows the marker at index i of the boundaries:
\* from the end of the marker, whose size is read again, to the next
\* marker or the end of the file.
RangeAfter(boundaries, i) ==
    [start |-> boundaries[i] + data.chunks[boundaries[i]].record.total_size,
     end |-> IF i + 1 <= Len(boundaries) THEN boundaries[i + 1]
             ELSE data.size]

\* _scan_lap_boundaries: one iteration, or the end of the scan and the
\* entry of _parse_perlap into the first lap range.
ScanLapBoundariesStep ==
    /\ pc = "scan"
    /\ \E r \in {HeaderAt(data.size)} :
         IF StopsLoop(r)
         THEN /\ pc' = "range"
              /\ pos' = loc.data_start
              /\ loc' = [FreshLocals(loc) EXCEPT
                           !.range = 1,
                           !.end = IF Len(loc.boundaries) = 0 THEN data.size
                                   ELSE loc.boundaries[1]]
              /\ self' = ResetForLap(self, 1)
         ELSE /\ pc' = "scan"
              /\ pos' = pos + r.total_size
              /\ loc' = [loc EXCEPT !.boundaries =
                           IF r.rec_type = 5 THEN Append(@, pos) ELSE @]
              /\ self' = self
    /\ UNCHANGED <<header_finish_line, data, native_mode, calls, returned,
                   epochs, emits>>

\* The step leaves the pass state p: at next_pos in next_pc, or where the
\* exception was raised.
Advance(p, next_pc, next_pos) ==
    /\ self' = p.self
    /\ loc' = p.loc
    /\ emits' = p.emits
    /\ pc' = IF p.raised THEN "raised" ELSE next_pc
    /\ pos' = IF p.raised THEN pos ELSE next_pos
    /\ returned' = IF ~p.raised /\ next_pc = "done"
                   THEN Append(returned, p.self.records) ELSE returned
    /\ UNCHANGED <<header_finish_line, data, native_mode, calls>>

\* _parse_data_section: one iteration of the record loop, or its end and
\* the final emission.
DataSectionStep ==
    /\ pc = "loop"
    /\ \E r \in {HeaderAt(data.size)} :
         IF StopsLoop(r)
         THEN /\ \E p \in {StageFinal(Pass, pos)} : Advance(p, "done", pos)
              /\ epochs' = epochs
         ELSE \E p \in {DataSectionIteration(Pass, r, pos)} :
                /\ Advance(p, "loop", pos + r.total_size)
                /\ epochs' = IF p.raised THEN epochs ELSE Append(epochs, pos)

\* _parse_lap_range: one iteration of the loop of the current lap range, or
\* its end, the final emission of the lap and the entry of _parse_perlap
\* into the next lap range.
LapRangeStep ==
    /\ pc = "range"
    /\ \E r \in {HeaderAt(loc.end)} :
         IF StopsLoop(r)
         THEN /\ epochs' = epochs
              /\ \E p \in {LapStageFinal(Pass, pos)} :
                   IF loc.range <= Len(loc.boundaries)
                   THEN \E next \in {RangeAfter(loc.boundaries, loc.range)} :
                        \E q \in {[p EXCEPT
                                     !.self = ResetForLap(@, loc.range + 1),
                                     !.loc = [FreshLocals(@) EXCEPT
                                                !.range = loc.range + 1,
                                                !.end = next.end]]} :
                          Advance(q, "range", next.start)
                   ELSE Advance(p, "done", pos)
         ELSE \E p \in {LapRangeIteration(Pass, r, pos)} :
                /\ Advance(p, "range", pos + r.total_size)
                /\ epochs' = IF p.raised THEN epochs ELSE Append(epochs, pos)

NextWalk ==
    \/ ReadFile
    \/ FindDataStartStep
    \/ ScanLapBoundariesStep
    \/ DataSectionStep
    \/ LapRangeStep

\* The parser keeps running until its loops end.
SpecWalk == InitWalk /\ [][NextWalk]_vars /\ WF_vars(NextWalk)

\* ------------------------------------------------------------------------
\* C28 - Termination
\* ------------------------------------------------------------------------

\* The step is an iteration of the header walk.
HeaderIteration == pc \in {"find", "refind"} /\ pc' = pc

\* The step is an iteration of a record loop that consumes a record.
RecordIteration ==
    /\ pc \in {"scan", "loop", "range"} /\ pc' = pc
    /\ pc = "range" => loc'.range = loc.range

\* The step leaves a lap range for the next one.
RangeChange == pc = "range" /\ pc' = "range" /\ loc'.range = loc.range + 1

\* C28: the read position grows by at least 5 at every iteration of the
\* header walk and by at least 14 at every iteration of a record loop, and
\* moves forward from one lap range to the next; no record is processed
\* twice in the parsing pass; the number of samples is bounded by the
\* number of records and lap ranges; and every run ends.
C28_Termination ==
    /\ [][/\ HeaderIteration => pos' >= pos + MinEntrySize
          /\ RecordIteration => pos' >= pos + HeaderSize
          /\ RangeChange => pos' > pos]_vars
    /\ [](\A i, j \in 1..Len(epochs) : i < j => epochs[i] < epochs[j])
    /\ [](Len(emits) <= 2 * Len(epochs) + Len(loc.boundaries) + 1)
    /\ [](Len(epochs) * HeaderSize <= data.size)
    /\ <>(pc \in {"done", "raised"})

\* A per-lap run over two lap ranges has ended after a header entry was
\* walked and records were processed in both ranges.
C28_Witness ==
    /\ pc = "done" /\ native_mode
    /\ loc.data_start > HeaderStart
    /\ Len(loc.boundaries) = 1
    /\ Len(epochs) >= 2
    /\ epochs[1] < loc.boundaries[1]
    /\ epochs[Len(epochs)] > loc.boundaries[1]
    /\ Len(emits) >= 1

\* ------------------------------------------------------------------------
\* C29 - No lap from the no-fix sentinel
\* ------------------------------------------------------------------------

\* The stored previous position is the no-fix sentinel.
PrevIsSentinel == self.prev_lat = NoFix /\ self.prev_lng = NoFix

\* The position the step's emission uses is the no-fix sentinel.
CurrentIsSentinel == loc'.current_lat = NoFix /\ loc'.current_lon = NoFix

\* C29: in continuous mode with a finish line, a step whose stored previous
\* position or whose current position is the 9999.0 sentinel does not
\* increment the lap counter and does not reset the fuel.
C29_NoLapFromSentinel ==
    [][(/\ ~native_mode /\ self.finish_line # <<>>
        /\ pc = "loop"
        /\ PrevIsSentinel \/ CurrentIsSentinel) =>
          /\ self'.current_lap = self.current_lap
          /\ self'.fuel_accumulator >= self.fuel_accumulator
          /\ self'.state.fuel >= self.state.fuel]_vars

\* ------------------------------------------------------------------------
\* C30 - Lap marker changes only the clock
\* ------------------------------------------------------------------------

\* The step processes a type-5 record in continuous mode.
MarkerStep ==
    /\ ~native_mode /\ pc = "loop"
    /\ pos < Len(data) /\ data[pos + 1].rec_type = 5
    /\ pos' = pos + 1

\* The locals of the timestamp reconstructor and the emission clock.
ClockLocals ==
    {"prev_ts_bytes", "prev_epoch_ms", "current_epoch_ms", "last_emitted_ms"}

\* C30: in continuous mode a type-5 record changes the emission clock and
\* the timestamp locals only: the object (lap counter, fuel accumulator,
\* channels, stored previous position, samples) and the GPS locals and gate
\* are unchanged; and the lap counter changes only by one, at an emission
\* whose step from the stored previous position crosses the finish line.
C30_MarkerChangesOnlyClock ==
    /\ [][MarkerStep =>
            /\ self' = self
            /\ emits' = emits
            /\ \A f \in DOMAIN loc \ ClockLocals : loc'[f] = loc[f]
            /\ loc'.last_emitted_ms = loc'.current_epoch_ms]_vars
    /\ [][(~native_mode /\ pc = "loop"
           /\ self'.current_lap # self.current_lap) =>
            /\ self.finish_line # <<>>
            /\ self'.current_lap = self.current_lap + 1
            /\ Len(emits') > Len(emits)
            /\ crosses_line(self.finish_line, self.prev_lat, self.prev_lng,
                            loc'.current_lat, loc'.current_lon)]_vars

\* A type-5 record has just been processed in continuous mode with the gate
\* open, fuel accumulated and a previous position stored: the lap is still
\* 1 and the clock is re-aligned on the marker.
C30_Witness ==
    /\ ~native_mode /\ pc = "loop" /\ pos >= 2
    /\ data[pos].rec_type = 5
    /\ loc.has_gprmc
    /\ self.finish_line # <<>>
    /\ self.state.fuel > 0 /\ self.fuel_accumulator > 0
    /\ self.prev_lat # 0
    /\ self.current_lap = 1
    /\ loc.current_epoch_ms = get_time_data(data[pos].ts_bytes)
    /\ loc.last_emitted_ms = loc.current_epoch_ms

====
